---- MODULE Spec2Model ----
(***************************************************************************)
(* Model of the LMS organization-registration backend                      *)
(* (backend/app/modules/organization): the OrganizationService operations  *)
(* acting on the relational store declared in models.py.                   *)
(*                                                                         *)
(* One request is one action.  A request runs the whole service method in  *)
(* one database session: either it reaches db.commit() and all its staged  *)
(* writes become the new store, or it raises and the session is discarded. *)
(* The response records what the service method returned or raised, and    *)
(* the status code with which the route answers the client.                *)
(*                                                                         *)
(* Spec is the specification of the service, its requests served one at a  *)
(* time.  SpecConcurrent is the service with several requests in flight,   *)
(* each in a transaction of its own, split at the statements it sends to   *)
(* the store.  SpecCoordinates and SpecMobile are utils/validators.py      *)
(* validate_coordinates and validate_mobile_number called on their own:    *)
(* the initial states draw the arguments and the one action is the call.   *)
(* SpecFiles is modules/files/storage.py FileStorageService saving uploads.*)
(*                                                                         *)
(* Conventions                                                             *)
(*   - Python None is the string None; every scalar column value is a      *)
(*     string, a boolean or (order_index) an integer.                      *)
(*   - A request payload is a record holding exactly the fields the client *)
(*     sent (pydantic's "fields set"); model_dump fills the schema         *)
(*     defaults for the others, model_dump(exclude_unset=True) does not.   *)
(*   - A table is the sequence of its rows in insertion order; the uuid    *)
(*     primary key of a child row is represented by the row's position.    *)
(*   - Values of time, date and float columns are written in the form      *)
(*     Python prints them (time(9,0) is "09:00:00", float("45") is "45.0").*)
(***************************************************************************)
EXTENDS Integers, Sequences, FiniteSets, TLC

VARIABLES db, issued, now, response

vars == <<db, issued, now, response>>

\* ------------------------------------------------------------------------
\* Bounds of the model
\* ------------------------------------------------------------------------

\* number of distinct organization ids (uuid4 values) that can be issued
MaxOrgs == 2

\* number of requests served in one behaviour (the clock stops there)
MaxTime == 4

\* ------------------------------------------------------------------------
\* Values
\* ------------------------------------------------------------------------

None == "None"

OrgIds == 1..MaxOrgs

\* models.OrganizationStatus
DRAFT == "draft"
SUBMITTED == "submitted"
APPROVED == "approved"
REJECTED == "rejected"

OrganizationStatus == {DRAFT, SUBMITTED, APPROVED, REJECTED}

\* Python truthiness of an Optional[str] value: None and "" are falsy
Truthy(v) == v /= None /\ v /= ""

\* ------------------------------------------------------------------------
\* pydantic / SQLAlchemy primitives used by the service
\* ------------------------------------------------------------------------

\* BaseModel.model_dump(exclude=...): every schema field (the required
\* ones, which data always holds, and the ones with a default), with the
\* default where the client did not send it
model_dump(defaults, data, exclude) ==
    [f \in ((DOMAIN defaults) \cup (DOMAIN data)) \ exclude |->
        IF f \in DOMAIN data THEN data[f] ELSE defaults[f]]

\* BaseModel.model_dump(exclude=..., exclude_unset=True): only the fields
\* the client sent
model_dump_exclude_unset(data, exclude) ==
    [f \in (DOMAIN data) \ exclude |-> data[f]]

\* for key, value in dump.items(): setattr(row, key, value)
setattrs(row, dump) ==
    [f \in DOMAIN row |-> IF f \in DOMAIN dump THEN dump[f] ELSE row[f]]

\* Model(organization_id=id, **kwargs): a new row; a column without a
\* keyword gets its Column default
new_row(columns, id, kwargs) ==
    [f \in (DOMAIN columns) \cup {"organization_id"} |->
        IF f = "organization_id" THEN id
        ELSE IF f \in DOMAIN kwargs THEN kwargs[f] ELSE columns[f]]

\* db.query(Model).filter(Model.organization_id == id)
rows_of(table, id) == SelectSeq(table, LAMBDA r : r.organization_id = id)

\* db.query(Model).delete(): the delete without the organization_id filter
delete_where_unfiltered(table, id) == <<>>

\* db.query(Model).filter(Model.organization_id == id).delete()
delete_where(table, id) == SelectSeq(table, LAMBDA r : r.organization_id /= id)

\* position of the row a uselist=False relationship loads: the first row of
\* the table that references the organization
first_of(table, id) ==
    CHOOSE i \in 1..Len(table) :
        /\ table[i].organization_id = id
        /\ \A j \in 1..(i - 1) : table[j].organization_id /= id

\* organization.<singleton> is not None
has_row(table, id) == \E i \in 1..Len(table) : table[i].organization_id = id

\* ------------------------------------------------------------------------
\* models.py: column defaults of every table
\* ------------------------------------------------------------------------

Organization_columns ==
    [lab_name |-> None, lab_address |-> None, lab_country |-> "India",
     lab_state |-> None, lab_district |-> None, lab_city |-> None,
     lab_pin_code |-> None, lab_logo_url |-> None,
     lab_proof_of_address |-> None, lab_proof_of_address_other |-> None,
     lab_document_id |-> None, lab_address_proof_url |-> None,
     status |-> DRAFT]

RegisteredOffice_columns ==
    [same_as_lab_address |-> FALSE, address |-> None, country |-> "India",
     state |-> None, district |-> None, city |-> None, pin_code |-> None,
     mobile |-> None, telephone |-> None, fax |-> None,
     top_management_document_url |-> None]

TopManagement_columns ==
    [name |-> None, designation |-> None, mobile |-> None,
     telephone |-> None, fax |-> None, order_index |-> 0]

ParentOrganization_columns ==
    [same_as_laboratory |-> FALSE, name |-> None, address |-> None,
     country |-> "India", state |-> None, district |-> None, city |-> None,
     pin_code |-> None]

BankDetails_columns ==
    [account_holder_name |-> None, account_number |-> None,
     ifsc_code |-> None, branch_name |-> None, gst_number |-> None,
     cancelled_cheque_url |-> None]

WorkingSchedule_columns ==
    [working_days |-> None, organization_type |-> None,
     organization_type_other |-> None, proof_of_legal_identity |-> None,
     proof_of_legal_identity_other |-> None,
     legal_identity_document_id |-> None,
     legal_identity_document_url |-> None]

ShiftTiming_columns ==
    [shift_from |-> None, shift_to |-> None, order_index |-> 0]

ComplianceDocument_columns ==
    [document_type |-> None, document_type_other |-> None,
     document_id |-> None, file_url |-> None]

PolicyDocuments_columns ==
    [impartiality_document_url |-> None,
     terms_conditions_document_url |-> None,
     code_of_ethics_document_url |-> None,
     testing_charges_policy_document_url |-> None]

InfrastructureDetails_columns ==
    [adequacy_sanctioned_load |-> None,
     availability_uninterrupted_power |-> FALSE,
     stability_of_supply |-> FALSE, water_source |-> None]

AccreditationDocument_columns ==
    [certification_type |-> None, certification_type_other |-> None,
     certificate_no |-> None, certificate_file_url |-> None,
     scope_file_url |-> None]

OtherLabDetails_columns ==
    [other_details |-> None, other_details_document_url |-> None,
     layout_lab_premises_url |-> None, organization_chart_url |-> None,
     gps_latitude |-> None, gps_longitude |-> None]

QualityManual_columns ==
    [title |-> None, issue_number |-> None, issue_date |-> None,
     amendments |-> None, document_url |-> None]

SOP_columns ==
    [title |-> None, number |-> None, issue_number |-> None,
     issue_date |-> None, amendments |-> None, order_index |-> 0]

QualityFormat_columns ==
    [title |-> None, number |-> None, issue_number |-> None,
     issue_date |-> None, amendments |-> None, order_index |-> 0]

QualityProcedure_columns ==
    [title |-> None, number |-> None, file_url |-> None,
     issue_number |-> None, issue_date |-> None, amendments |-> None,
     order_index |-> 0]

\* the 0..1 children of an Organization (relationship(..., uselist=False))
SingletonTables ==
    {"registered_offices", "parent_organizations", "bank_details",
     "working_schedules", "policy_documents", "infrastructure_details",
     "other_lab_details", "quality_manuals"}

\* the 0..N children of an Organization
CollectionTables ==
    {"top_management", "shift_timings", "compliance_documents",
     "accreditation_documents", "sops", "quality_formats",
     "quality_procedures"}

\* the 0..N children that carry an order_index column
OrderedTables ==
    {"top_management", "shift_timings", "sops", "quality_formats",
     "quality_procedures"}

ChildTables == SingletonTables \cup CollectionTables

\* ------------------------------------------------------------------------
\* schemas.py: defaults of the request schemas (fields declared with "..."
\* or without a default are required and always present in a payload)
\* ------------------------------------------------------------------------

TopManagementCreate_defaults ==
    [telephone |-> None, fax |-> None, order_index |-> 0]

ShiftTimingCreate_defaults == [order_index |-> 0]

ComplianceDocumentCreate_defaults ==
    [document_type_other |-> None, document_id |-> None, file_url |-> None]

AccreditationDocumentCreate_defaults ==
    [certification_type_other |-> None, certificate_no |-> None,
     certificate_file_url |-> None, scope_file_url |-> None]

SOPCreate_defaults ==
    [title |-> None, number |-> None, issue_number |-> None,
     issue_date |-> None, amendments |-> None, order_index |-> 0]

QualityFormatCreate_defaults ==
    [title |-> None, number |-> None, issue_number |-> None,
     issue_date |-> None, amendments |-> None, order_index |-> 0]

QualityProcedureCreate_defaults ==
    [title |-> None, number |-> None, file_url |-> None,
     issue_number |-> None, issue_date |-> None, amendments |-> None,
     order_index |-> 0]

LaboratoryDetailsUpdate_defaults ==
    [lab_country |-> "India", lab_logo_url |-> None,
     lab_proof_of_address_other |-> None, lab_document_id |-> None,
     lab_address_proof_url |-> None]

RegisteredOfficeUpdate_defaults ==
    [same_as_lab_address |-> FALSE, address |-> None, country |-> "India",
     state |-> None, district |-> None, city |-> None, pin_code |-> None,
     mobile |-> None, telephone |-> None, fax |-> None,
     top_management_document_url |-> None, top_management |-> <<>>]

ParentOrganizationUpdate_defaults ==
    [same_as_laboratory |-> FALSE, name |-> None, address |-> None,
     country |-> "India", state |-> None, district |-> None, city |-> None,
     pin_code |-> None]

BankDetailsUpdate_defaults ==
    [account_holder_name |-> None, account_number |-> None,
     ifsc_code |-> None, branch_name |-> None, gst_number |-> None,
     cancelled_cheque_url |-> None]

WorkingScheduleUpdate_defaults ==
    [working_days |-> <<>>, organization_type_other |-> None,
     proof_of_legal_identity_other |-> None,
     legal_identity_document_id |-> None,
     legal_identity_document_url |-> None, shift_timings |-> <<>>]

ComplianceDocumentsUpdate_defaults == [compliance_documents |-> <<>>]

PolicyDocumentsUpdate_defaults ==
    [impartiality_document_url |-> None,
     terms_conditions_document_url |-> None,
     code_of_ethics_document_url |-> None,
     testing_charges_policy_document_url |-> None]

InfrastructureUpdate_defaults ==
    [adequacy_sanctioned_load |-> None,
     availability_uninterrupted_power |-> FALSE,
     stability_of_supply |-> FALSE, water_source |-> None]

AccreditationUpdate_defaults == [accreditation_documents |-> <<>>]

OtherLabDetailsUpdate_defaults ==
    [other_details |-> None, other_details_document_url |-> None,
     layout_lab_premises_url |-> None, organization_chart_url |-> None,
     gps_latitude |-> None, gps_longitude |-> None]

QualityManualUpdate_defaults ==
    [title |-> None, issue_number |-> None, issue_date |-> None,
     amendments |-> None, document_url |-> None, sops |-> <<>>]

QualityFormatsUpdate_defaults ==
    [quality_formats |-> <<>>, quality_procedures |-> <<>>]

\* data.<field> on a parsed schema object: the value sent, else the default
attr(defaults, data, f) == IF f \in DOMAIN data THEN data[f] ELSE defaults[f]

\* ------------------------------------------------------------------------
\* Conversions done by the service
\* ------------------------------------------------------------------------

ValueError == "ValueError"
TypeError == "TypeError"

\* datetime.strptime(s, '%H:%M').time(), printed; ValueError when s does not
\* match the format (hour 0..23 and minute 0..59, one or two digits each)
strptime_HM(s) ==
    CASE s = "09:00" -> "09:00:00"
      [] s = "9:30"  -> "09:30:00"
      [] s = "17:00" -> "17:00:00"
      [] s = "18:00" -> "18:00:00"
      [] s = "23:59" -> "23:59:00"
      [] OTHER       -> ValueError

\* float(s), printed; ValueError when s is not a number
float(s) ==
    CASE s = "45"    -> "45.0"
      [] s = "45.0"  -> "45.0"
      [] s = "90"    -> "90.0"
      [] s = "-90"   -> "-90.0"
      [] s = "90.5"  -> "90.5"
      [] s = "200"   -> "200.0"
      [] s = "72.8777" -> "72.8777"
      [] s = "0"     -> "0.0"
      [] s = "-90.5" -> "-90.5"
      [] s = "180"   -> "180.0"
      [] s = "-180"  -> "-180.0"
      [] s = "180.5" -> "180.5"
      [] s = "-180.5" -> "-180.5"
      [] OTHER       -> ValueError

\* the value of the float x in units of 0.0001, for comparisons
ten_thousandths(x) ==
    CASE x = "45.0"    -> 450000
      [] x = "90.0"    -> 900000
      [] x = "-90.0"   -> -900000
      [] x = "90.5"    -> 905000
      [] x = "-90.5"   -> -905000
      [] x = "200.0"   -> 2000000
      [] x = "72.8777" -> 728777
      [] x = "0.0"     -> 0
      [] x = "180.0"   -> 1800000
      [] x = "-180.0"  -> -1800000
      [] x = "180.5"   -> 1805000
      [] x = "-180.5"  -> -1805000

\* a <= x <= b for a float x and whole numbers a and b
between(a, x, b) ==
    a * 10000 <= ten_thousandths(x) /\ ten_thousandths(x) <= b * 10000

\* ------------------------------------------------------------------------
\* utils/validators.py
\* ------------------------------------------------------------------------

\* the characters \d matches (ASCII; the Unicode digits are left out)
Digits == {"0", "1", "2", "3", "4", "5", "6", "7", "8", "9"}

\* the characters of the pin code string s, in order
chars(s) ==
    CASE s = "400001" -> <<"4", "0", "0", "0", "0", "1">>
      [] s = "395003" -> <<"3", "9", "5", "0", "0", "3">>
      [] s = "411001" -> <<"4", "1", "1", "0", "0", "1">>
      [] s = "400002" -> <<"4", "0", "0", "0", "0", "2">>
      [] s = "400003" -> <<"4", "0", "0", "0", "0", "3">>
      [] s = "3950033" -> <<"3", "9", "5", "0", "0", "3", "3">>
      [] s = "395003\n" -> <<"3", "9", "5", "0", "0", "3", "\n">>
      [] s = "40000a" -> <<"4", "0", "0", "0", "0", "a">>
      [] s = "40002" -> <<"4", "0", "0", "0", "2">>
      [] s = "4000 03" -> <<"4", "0", "0", "0", " ", "0", "3">>

\* re.match(r'^\d{6}$', ...) on a sequence of characters: six digits, then
\* the end of the string or a newline that ends the string
re_match_six_digits(cs) ==
    /\ Len(cs) \in {6, 7}
    /\ \A i \in 1..6 : cs[i] \in Digits
    /\ Len(cs) = 7 => cs[7] = "\n"

\* validate_pin_code, on the characters of pin_code
validate_pin_code(pin_code) == re_match_six_digits(pin_code)

\* re.sub(r'[^\d+]', '', ...) on a sequence of characters
re_sub_non_digit_plus(cs) ==
    SelectSeq(cs, LAMBDA c : c \in Digits \cup {"+"})

\* re.match(r'^' + prefix + r'\d{10}$', ...) on a sequence of characters,
\* for a prefix of literal characters: the prefix, ten digits, then the end
\* of the string or a newline that ends the string
re_match_ten_digits(prefix, cs) ==
    LET n == Len(prefix) + 10
    IN  /\ Len(cs) \in {n, n + 1}
        /\ \A i \in 1..Len(prefix) : cs[i] = prefix[i]
        /\ \A i \in (Len(prefix) + 1)..n : cs[i] \in Digits
        /\ Len(cs) = n + 1 => cs[n + 1] = "\n"

\* validate_mobile_number matching the patterns against mobile as it came,
\* without the removal of the other characters
validate_mobile_number_uncleaned(mobile) ==
    \E prefix \in {<<"+", "9", "1">>, <<"9", "1">>, <<>>} :
        re_match_ten_digits(prefix, mobile)

\* validate_mobile_number, on the characters of mobile
validate_mobile_number(mobile) ==
    LET cleaned == re_sub_non_digit_plus(mobile)
    IN  \E prefix \in {<<"+", "9", "1">>, <<"9", "1">>, <<>>} :
            re_match_ten_digits(prefix, cleaned)

\* validate_coordinates with the bounds of the two ranges excluded
validate_coordinates_open_ranges(latitude, longitude) ==
    IF ~Truthy(latitude) \/ ~Truthy(longitude) THEN FALSE
    ELSE IF float(latitude) = ValueError \/ float(longitude) = ValueError
    THEN FALSE
    ELSE /\ between(-90, float(latitude), 90)
         /\ between(-180, float(longitude), 180)
         /\ ten_thousandths(float(latitude)) \notin {-900000, 900000}
         /\ ten_thousandths(float(longitude)) \notin {-1800000, 1800000}

validate_coordinates(latitude, longitude) ==
    IF ~Truthy(latitude) \/ ~Truthy(longitude) THEN FALSE
    ELSE IF float(latitude) = ValueError \/ float(longitude) = ValueError
    THEN FALSE
    ELSE /\ between(-90, float(latitude), 90)
         /\ between(-180, float(longitude), 180)

\* ------------------------------------------------------------------------
\* Request payloads the clients send
\* ------------------------------------------------------------------------

\* longest list a client sends in one step
MaxItems == 3

\* the list a, b, a, b, ... of length n
AltList(a, b, n) == [i \in 1..n |-> IF i % 2 = 1 THEN a ELSE b]

OrganizationCreate_payloads ==
    { [lab_name |-> "Test Laboratory", lab_address |-> "123 Main Street",
       lab_state |-> "Maharashtra", lab_district |-> "Mumbai",
       lab_city |-> "Mumbai", lab_pin_code |-> "400001"],
      [lab_name |-> "Lab B", lab_address |-> "7 Ring Road",
       lab_state |-> "Gujarat", lab_district |-> "Surat",
       lab_city |-> "Surat", lab_pin_code |-> "3950033"] }

LaboratoryDetailsUpdate_payloads ==
    { [lab_name |-> "Test Laboratory", lab_address |-> "123 Main Street",
       lab_state |-> "Maharashtra", lab_district |-> "Mumbai",
       lab_city |-> "Mumbai", lab_pin_code |-> "400001",
       lab_proof_of_address |-> "Electricity Bill"],
      [lab_name |-> "Renamed Lab", lab_address |-> "9 New Street",
       lab_state |-> "Maharashtra", lab_district |-> "Pune",
       lab_city |-> "Pune", lab_pin_code |-> "411001",
       lab_proof_of_address |-> "",
       lab_logo_url |-> "/uploads/logos/logo.png"],
      [lab_name |-> "Lab B", lab_address |-> "7 Ring Road",
       lab_state |-> "Gujarat", lab_district |-> "Surat",
       lab_city |-> "Surat", lab_pin_code |-> "395003\n",
       lab_proof_of_address |-> "Other",
       lab_proof_of_address_other |-> None,
       lab_logo_url |-> None],
      [lab_name |-> "Test Laboratory", lab_address |-> "123 Main Street",
       lab_state |-> "Maharashtra", lab_district |-> "Mumbai",
       lab_city |-> "Mumbai", lab_pin_code |-> "40000a",
       lab_proof_of_address |-> "Electricity Bill"] }

tmA == [name |-> "Asha", designation |-> "Director",
        mobile |-> "9876543210", order_index |-> 7]
tmB == [name |-> "Ravi", designation |-> "Manager",
        mobile |-> "9123456780", fax |-> None]

RegisteredOfficeUpdate_payloads ==
    { [address |-> "1 Office Road", pin_code |-> "400002",
       mobile |-> "9876543210",
       top_management |-> AltList(tmA, tmB, MaxItems)],
      [same_as_lab_address |-> TRUE, address |-> None,
       top_management |-> <<tmB>>],
      [city |-> "Thane", pin_code |-> "40002"] }

ParentOrganizationUpdate_payloads ==
    { [name |-> "Parent Org", pin_code |-> "400003"],
      [same_as_laboratory |-> TRUE, name |-> None,
       pin_code |-> "4000 03"] }

BankDetailsUpdate_payloads ==
    { [account_holder_name |-> "Test Laboratory",
       account_number |-> "1234567890", ifsc_code |-> "HDFC0001234"],
      [account_number |-> None, branch_name |-> "Fort"] }

shA == [shift_from |-> "09:00", shift_to |-> "17:00", order_index |-> 5]
shB == [shift_from |-> "9:30", shift_to |-> "18:00"]
shBad == [shift_from |-> "25:00", shift_to |-> "18:00"]

WorkingScheduleUpdate_payloads ==
    { [organization_type |-> "Private", proof_of_legal_identity |-> "PAN",
       working_days |-> <<"Mon", "Tue">>,
       shift_timings |-> AltList(shA, shB, MaxItems)],
      [organization_type |-> "Government",
       proof_of_legal_identity |-> "GST",
       organization_type_other |-> None,
       shift_timings |-> <<shB>>],
      [organization_type |-> "Trust", proof_of_legal_identity |-> "Deed",
       legal_identity_document_id |-> "L-1",
       shift_timings |-> <<shA, shBad>>] }

cdA == [document_type |-> "Fire NOC", document_id |-> "F-1"]
cdB == [document_type |-> "Other", document_type_other |-> "Trade",
        file_url |-> "/uploads/documents/trade.pdf"]

ComplianceDocumentsUpdate_payloads ==
    { [compliance_documents |-> AltList(cdA, cdB, MaxItems)],
      [compliance_documents |-> <<cdB>>],
      <<>> }

PolicyDocumentsUpdate_payloads ==
    { [impartiality_document_url |-> "/uploads/documents/imp.pdf",
       terms_conditions_document_url |-> "/uploads/documents/tc.pdf"],
      [impartiality_document_url |-> None,
       code_of_ethics_document_url |-> "/uploads/documents/coe.pdf"] }

InfrastructureUpdate_payloads ==
    { [adequacy_sanctioned_load |-> "50 kW",
       availability_uninterrupted_power |-> TRUE,
       water_source |-> "Municipal"],
      [water_source |-> None, stability_of_supply |-> TRUE] }

adA == [certification_type |-> "NABL", certificate_no |-> "N-1"]
adB == [certification_type |-> "ISO",
        scope_file_url |-> "/uploads/documents/scope.pdf"]

AccreditationUpdate_payloads ==
    { [accreditation_documents |-> AltList(adA, adB, MaxItems)],
      [accreditation_documents |-> <<adB>>],
      <<>> }

OtherLabDetailsUpdate_payloads ==
    { [other_details |-> "NABL lab", gps_latitude |-> "45",
       gps_longitude |-> "90.5"],
      [gps_latitude |-> "45", gps_longitude |-> "200",
       organization_chart_url |-> "/uploads/documents/chart.pdf"],
      [gps_latitude |-> None, gps_longitude |-> "72.8777"],
      [gps_latitude |-> "abc"] }

sopA == [title |-> "SOP A", number |-> "S-1", order_index |-> 4]
sopB == [title |-> "SOP B", issue_date |-> "2024-01-01"]

QualityManualUpdate_payloads ==
    { [title |-> "Quality Manual", issue_number |-> "1",
       issue_date |-> "2024-01-01"],
      [title |-> None, amendments |-> "A1", sops |-> <<>>],
      [title |-> "QM 2", sops |-> AltList(sopA, sopB, MaxItems)] }

qfA == [title |-> "Format A", number |-> "QF-1", order_index |-> 3]
qfB == [title |-> "Format B"]
qpA == [title |-> "Procedure A", file_url |-> "/uploads/documents/p.pdf",
        order_index |-> 9]
qpB == [title |-> "Procedure B"]

QualityFormatsUpdate_payloads ==
    { [quality_formats |-> AltList(qfA, qfB, MaxItems)],
      [quality_procedures |-> <<qpA, qpB>>],
      [quality_formats |-> <<>>, quality_procedures |-> <<>>] }

\* ------------------------------------------------------------------------
\* The store, the session and the response of a request
\* ------------------------------------------------------------------------

NotFoundException == "NotFoundException"
BadRequestException == "BadRequestException"
RequestValidationError == "RequestValidationError"
FileUploadException == "FileUploadException"

Init ==
    /\ db = [organizations |-> <<>>,
             registered_offices |-> <<>>, top_management |-> <<>>,
             parent_organizations |-> <<>>, bank_details |-> <<>>,
             working_schedules |-> <<>>, shift_timings |-> <<>>,
             compliance_documents |-> <<>>, policy_documents |-> <<>>,
             infrastructure_details |-> <<>>,
             accreditation_documents |-> <<>>, other_lab_details |-> <<>>,
             quality_manuals |-> <<>>, sops |-> <<>>,
             quality_formats |-> <<>>, quality_procedures |-> <<>>]
    /\ issued = {}
    /\ now = 0
    /\ response = [raised |-> None, detail |-> None, returns |-> None,
                   body |-> None, status_code |-> 0]

\* every request is served at a later instant than the one before it
Tick == now < MaxTime /\ now' = now + 1

\* status codes of the answers
HTTP_200_OK == 200
HTTP_201_CREATED == 201
HTTP_204_NO_CONTENT == 204
HTTP_400_BAD_REQUEST == 400
HTTP_404_NOT_FOUND == 404
HTTP_422_UNPROCESSABLE_ENTITY == 422
HTTP_500_INTERNAL_SERVER_ERROR == 500

\* the status code of a request that ends by the exception: the one the
\* HTTPException subclasses carry; any other exception reaches no handler
\* and is answered as an internal server error
status_code_of(exc) ==
    CASE exc = NotFoundException -> HTTP_404_NOT_FOUND
      [] exc = BadRequestException -> HTTP_400_BAD_REQUEST
      [] exc = RequestValidationError -> HTTP_422_UNPROCESSABLE_ENTITY
      [] exc = FileUploadException -> HTTP_400_BAD_REQUEST
      [] OTHER -> HTTP_500_INTERNAL_SERVER_ERROR

\* what the request leaves to observe: the value the service method
\* returned, or the exception it raised and its message, and the status
\* code of the answer
answer(status_code, raised, detail, returns, body) ==
    response' = [raised |-> raised, detail |-> detail,
                 returns |-> returns, body |-> body,
                 status_code |-> status_code]

\* the answer of a route that returns a plain value or dict: 200 unless
\* the service raised
reply(raised, detail, returns, body) ==
    answer(IF raised = None THEN HTTP_200_OK ELSE status_code_of(raised),
           raised, detail, returns, body)

\* a call that raises nothing returns body, a value of type returns
return(returns, body) == reply(None, None, returns, body)

\* response_model=schemas.OrganizationResponse applied to the Organization
\* loaded from the store: the root columns typed str must hold a string;
\* a singleton child is an ORM object where the schema wants Optional[dict],
\* and a ShiftTiming holds datetime.time where ShiftTimingResponse wants
\* str, both of which fail the validation
OrganizationResponse_validates(store, id) ==
    /\ \A f \in {"lab_name", "lab_address", "lab_country", "lab_state",
                  "lab_district", "lab_city", "lab_pin_code"} :
          store.organizations[id][f] /= None
    /\ \A t \in SingletonTables : ~has_row(store[t], id)
    /\ rows_of(store.shift_timings, id) = <<>>

\* the answer of a route declared with
\* response_model=schemas.OrganizationResponse that returns the
\* Organization: the declared status code when the Organization, as stored
\* after the request, passes the response model, else an internal server
\* error
return_model(status_code, store, id) ==
    answer(IF OrganizationResponse_validates(store, id) THEN status_code
           ELSE HTTP_500_INTERNAL_SERVER_ERROR,
           None, None, "Organization", store.organizations[id])

\* db.commit(): the staged writes become the store
commit(staged) == db' = staged

\* the request ends by an exception before db.commit(): the session is
\* closed and its staged writes are discarded
session_close == db' = db

\* the request raises exc, nothing of it persists
raise(exc, detail) == session_close /\ reply(exc, detail, None, None)

\* raise NotFoundException(f"Organization with ID {organization_id} not found")
not_found(id) ==
    raise(NotFoundException, <<"Organization with ID", id, "not found">>)

\* messages of the exceptions the service lets escape
strptime_detail == "time data does not match format '%H:%M'"
float_detail == "could not convert string to float"
kwargs_detail == "got multiple values for keyword argument 'order_index'"
incomplete_detail ==
    "Organization is not complete. Please fill all required fields."

\* Organization.updated_at, onupdate=func.now(): the UPDATE of the
\* organizations row, emitted only when a column of that row changed,
\* stamps the row
flush_organization(old, new, t) ==
    IF new = old THEN old ELSE [new EXCEPT !.updated_at = t]

\* models.Organization(**kwargs) inserted at time t
new_organization(kwargs, t) ==
    [f \in (DOMAIN Organization_columns) \cup {"created_at", "updated_at"} |->
        IF f \in {"created_at", "updated_at"} THEN t
        ELSE IF f \in DOMAIN kwargs THEN kwargs[f]
        ELSE Organization_columns[f]]

\* db.query(models.Organization).filter(id == organization_id).first()
\* is not None
organization_exists(id) == id \in DOMAIN db.organizations

\* the singleton branch without the "if organization.<child>" test: a row
\* is added on every call
upsert_always_adds(table, columns, id, update_dump, create_kwargs) ==
    Append(table, new_row(columns, id, create_kwargs))

\* the "if organization.<child>: setattr ... else: db.add(Model(...))"
\* branch of the singleton steps
upsert(table, columns, id, update_dump, create_kwargs) ==
    IF has_row(table, id)
    THEN [table EXCEPT ![first_of(table, id)] = setattrs(@, update_dump)]
    ELSE Append(table, new_row(columns, id, create_kwargs))

\* f(**dump, key=value) raises TypeError when dump holds the key already
kwargs_clash(dump, explicit) == (DOMAIN dump) \cap explicit /= {}

\* ------------------------------------------------------------------------
\* OrganizationService: create, get, delete
\* ------------------------------------------------------------------------

\* uuid.uuid4(): a value no row has had before; the values are opaque, so
\* they are issued in increasing order
fresh_ids == {i \in OrgIds \ issued : \A j \in OrgIds \ issued : i <= j}

\* create_organization adding an empty RegisteredOffice with the root row
create_organization_with_office(org_data) ==
    /\ Tick
    /\ \E id \in fresh_ids :
         LET organization == new_organization(org_data, now + 1)
         IN  /\ commit([db EXCEPT
                   !.organizations = (id :> organization) @@ @,
                   !.registered_offices =
                       Append(@, new_row(RegisteredOffice_columns, id, <<>>))])
             /\ issued' = issued \cup {id}
             /\ return("Organization", organization)

\* the request body fails OrganizationCreate: lab_pin_code is shorter than
\* min_length=6 or longer than max_length=10 (the schema has no validator)
OrganizationCreate_raises(org_data) ==
    Len(chars(org_data.lab_pin_code)) \notin 6..10

create_organization(org_data) ==
    /\ Tick
    /\ IF OrganizationCreate_raises(org_data)
       THEN /\ UNCHANGED issued
            /\ raise(RequestValidationError,
                     "String should have at least 6 characters")
       ELSE \E id \in fresh_ids :
         LET organization == new_organization(org_data, now + 1)
         IN  /\ commit([db EXCEPT !.organizations = (id :> organization) @@ @])
             /\ issued' = issued \cup {id}
             /\ return_model(HTTP_201_CREATED, db', id)

get_organization(id) ==
    /\ Tick
    /\ UNCHANGED issued
    /\ IF ~organization_exists(id)
       THEN not_found(id)
       ELSE /\ session_close
            /\ return_model(HTTP_200_OK, db, id)

\* delete_organization removing the organizations row alone, as a bulk
\* query delete (which skips the ORM cascade) would
delete_organization_without_cascade(id) ==
    /\ Tick
    /\ UNCHANGED issued
    /\ IF ~organization_exists(id)
       THEN not_found(id)
       ELSE /\ commit([db EXCEPT !.organizations =
                          [i \in (DOMAIN db.organizations) \ {id} |->
                              db.organizations[i]]])
            /\ return("bool", TRUE)

delete_organization(id) ==
    /\ Tick
    /\ UNCHANGED issued
    /\ IF ~organization_exists(id)
       THEN not_found(id)
       ELSE /\ commit([t \in DOMAIN db |->
                          IF t = "organizations"
                          THEN [i \in (DOMAIN db.organizations) \ {id} |->
                                   db.organizations[i]]
                          ELSE delete_where(db[t], id)])
            /\ answer(HTTP_204_NO_CONTENT, None, None, "bool", TRUE)

\* ------------------------------------------------------------------------
\* Step 1: laboratory details
\* ------------------------------------------------------------------------

\* update_laboratory_details writing the status column as well, as a schema
\* that carried a status default would
update_laboratory_details_resets_status(id, data) ==
    /\ Tick
    /\ UNCHANGED issued
    /\ IF ~organization_exists(id)
       THEN not_found(id)
       ELSE LET old == db.organizations[id]
                organization ==
                    flush_organization(old,
                        setattrs(old, [status |-> DRAFT] @@
                                      model_dump_exclude_unset(data, {})),
                        now + 1)
            IN  /\ commit([db EXCEPT !.organizations[id] = organization])
                /\ return("Organization", organization)

\* LaboratoryDetailsUpdate.validate_pin(v)
validate_pin(v) == IF ~validate_pin_code(chars(v)) THEN ValueError ELSE v

\* the request body fails LaboratoryDetailsUpdate: lab_pin_code is shorter
\* than min_length=6 or longer than max_length=10, or validate_pin raises
LaboratoryDetailsUpdate_raises(data) ==
    \/ Len(chars(data.lab_pin_code)) \notin 6..10
    \/ validate_pin(data.lab_pin_code) = ValueError

update_laboratory_details(id, data) ==
    /\ Tick
    /\ UNCHANGED issued
    /\ IF LaboratoryDetailsUpdate_raises(data)
       THEN raise(RequestValidationError, "Invalid PIN code format")
       ELSE IF ~organization_exists(id)
       THEN not_found(id)
       ELSE LET old == db.organizations[id]
                organization ==
                    flush_organization(old,
                        setattrs(old, model_dump_exclude_unset(data, {})),
                        now + 1)
            IN  /\ commit([db EXCEPT !.organizations[id] = organization])
                /\ return_model(HTTP_200_OK, db', id)

\* ------------------------------------------------------------------------
\* Step 2: registered office and top management
\* ------------------------------------------------------------------------

\* the TopManagement rows built by the loop over data.top_management
top_management_rows(id, items) ==
    [i \in 1..Len(items) |->
        new_row(TopManagement_columns, id,
            [order_index |-> i - 1] @@
            model_dump(TopManagementCreate_defaults, items[i],
                       {"order_index"}))]

update_registered_office(id, data) ==
    /\ Tick
    /\ UNCHANGED issued
    /\ IF ~organization_exists(id)
       THEN not_found(id)
       ELSE LET offices ==
                    upsert(db.registered_offices, RegisteredOffice_columns, id,
                        model_dump_exclude_unset(data, {"top_management"}),
                        model_dump(RegisteredOfficeUpdate_defaults, data,
                                   {"top_management"}))
                items == attr(RegisteredOfficeUpdate_defaults, data,
                              "top_management")
            IN  /\ commit([db EXCEPT
                      !.registered_offices = offices,
                      !.top_management =
                          delete_where(@, id) \o top_management_rows(id, items)])
                /\ return("Organization", db.organizations[id])

\* ------------------------------------------------------------------------
\* Step 3: parent organization and bank details
\* ------------------------------------------------------------------------

update_parent_organization(id, data) ==
    /\ Tick
    /\ UNCHANGED issued
    /\ IF ~organization_exists(id)
       THEN not_found(id)
       ELSE /\ commit([db EXCEPT !.parent_organizations =
                  upsert(@, ParentOrganization_columns, id,
                      model_dump_exclude_unset(data, {}),
                      model_dump(ParentOrganizationUpdate_defaults, data, {}))])
            /\ return("Organization", db.organizations[id])

\* update_bank_details without the get_organization lookup
update_bank_details_without_lookup(id, data) ==
    /\ Tick
    /\ UNCHANGED issued
    /\ commit([db EXCEPT !.bank_details =
           upsert(@, BankDetails_columns, id,
               model_dump_exclude_unset(data, {}),
               model_dump(BankDetailsUpdate_defaults, data, {}))])
    /\ return("Organization", None)

update_bank_details(id, data) ==
    /\ Tick
    /\ UNCHANGED issued
    /\ IF ~organization_exists(id)
       THEN not_found(id)
       ELSE /\ commit([db EXCEPT !.bank_details =
                  upsert(@, BankDetails_columns, id,
                      model_dump_exclude_unset(data, {}),
                      model_dump(BankDetailsUpdate_defaults, data, {}))])
            /\ return("Organization", db.organizations[id])

\* ------------------------------------------------------------------------
\* Step 4: working schedule and shift timings
\* ------------------------------------------------------------------------

\* the loop over data.shift_timings raises ValueError at the first item
\* whose shift_from or shift_to strptime rejects
shift_timings_raise(items) ==
    \E i \in 1..Len(items) :
        \/ strptime_HM(items[i].shift_from) = ValueError
        \/ strptime_HM(items[i].shift_to) = ValueError

\* the ShiftTiming rows built by the loop over data.shift_timings
shift_timing_rows(id, items) ==
    [i \in 1..Len(items) |->
        new_row(ShiftTiming_columns, id,
            [shift_from |-> strptime_HM(items[i].shift_from),
             shift_to |-> strptime_HM(items[i].shift_to),
             order_index |-> i - 1] @@
            model_dump(ShiftTimingCreate_defaults, items[i], {}))]

\* update_working_schedule with a db.commit() before the loop over the
\* shift timings: the upsert and the delete persist when the loop raises
update_working_schedule_commits_early(id, data) ==
    /\ Tick
    /\ UNCHANGED issued
    /\ IF ~organization_exists(id)
       THEN not_found(id)
       ELSE LET schedules ==
                    upsert(db.working_schedules, WorkingSchedule_columns, id,
                        model_dump_exclude_unset(data, {"shift_timings"}),
                        model_dump(WorkingScheduleUpdate_defaults, data,
                                   {"shift_timings"}))
                items == attr(WorkingScheduleUpdate_defaults, data,
                              "shift_timings")
            IN  IF shift_timings_raise(items)
                THEN /\ commit([db EXCEPT
                           !.working_schedules = schedules,
                           !.shift_timings = delete_where(@, id)])
                     /\ reply(ValueError, strptime_detail, None, None)
                ELSE /\ commit([db EXCEPT
                           !.working_schedules = schedules,
                           !.shift_timings =
                               delete_where(@, id) \o
                               shift_timing_rows(id, items)])
                     /\ return("Organization", db.organizations[id])

update_working_schedule(id, data) ==
    /\ Tick
    /\ UNCHANGED issued
    /\ IF ~organization_exists(id)
       THEN not_found(id)
       ELSE LET schedules ==
                    upsert(db.working_schedules, WorkingSchedule_columns, id,
                        model_dump_exclude_unset(data, {"shift_timings"}),
                        model_dump(WorkingScheduleUpdate_defaults, data,
                                   {"shift_timings"}))
                items == attr(WorkingScheduleUpdate_defaults, data,
                              "shift_timings")
            IN  IF shift_timings_raise(items)
                THEN raise(ValueError, strptime_detail)
                ELSE /\ commit([db EXCEPT
                           !.working_schedules = schedules,
                           !.shift_timings =
                               delete_where(@, id) \o
                               shift_timing_rows(id, items)])
                     /\ return("Organization", db.organizations[id])

\* ------------------------------------------------------------------------
\* Step 5: compliance documents
\* ------------------------------------------------------------------------

compliance_document_rows(id, items) ==
    [i \in 1..Len(items) |->
        new_row(ComplianceDocument_columns, id,
            model_dump(ComplianceDocumentCreate_defaults, items[i], {}))]

\* update_compliance_documents without the delete of the rows the
\* Organization has: every call appends its documents
update_compliance_documents_appends(id, data) ==
    /\ Tick
    /\ UNCHANGED issued
    /\ IF ~organization_exists(id)
       THEN not_found(id)
       ELSE /\ commit([db EXCEPT !.compliance_documents =
                  @ \o
                  compliance_document_rows(id,
                      attr(ComplianceDocumentsUpdate_defaults, data,
                           "compliance_documents"))])
            /\ return("Organization", db.organizations[id])

update_compliance_documents(id, data) ==
    /\ Tick
    /\ UNCHANGED issued
    /\ IF ~organization_exists(id)
       THEN not_found(id)
       ELSE /\ commit([db EXCEPT !.compliance_documents =
                  delete_where(@, id) \o
                  compliance_document_rows(id,
                      attr(ComplianceDocumentsUpdate_defaults, data,
                           "compliance_documents"))])
            /\ return("Organization", db.organizations[id])

\* ------------------------------------------------------------------------
\* Step 6: policy documents
\* ------------------------------------------------------------------------

update_policy_documents(id, data) ==
    /\ Tick
    /\ UNCHANGED issued
    /\ IF ~organization_exists(id)
       THEN not_found(id)
       ELSE /\ commit([db EXCEPT !.policy_documents =
                  upsert(@, PolicyDocuments_columns, id,
                      model_dump_exclude_unset(data, {}),
                      model_dump(PolicyDocumentsUpdate_defaults, data, {}))])
            /\ return("Organization", db.organizations[id])

\* ------------------------------------------------------------------------
\* Step 7: infrastructure
\* ------------------------------------------------------------------------

update_infrastructure(id, data) ==
    /\ Tick
    /\ UNCHANGED issued
    /\ IF ~organization_exists(id)
       THEN not_found(id)
       ELSE /\ commit([db EXCEPT !.infrastructure_details =
                  upsert(@, InfrastructureDetails_columns, id,
                      model_dump_exclude_unset(data, {}),
                      model_dump(InfrastructureUpdate_defaults, data, {}))])
            /\ return("Organization", db.organizations[id])

\* ------------------------------------------------------------------------
\* Step 8: accreditation documents and other lab details
\* ------------------------------------------------------------------------

accreditation_document_rows(id, items) ==
    [i \in 1..Len(items) |->
        new_row(AccreditationDocument_columns, id,
            model_dump(AccreditationDocumentCreate_defaults, items[i], {}))]

\* update_accreditation_documents whose delete names the ComplianceDocument
\* model: the compliance documents of the Organization are removed too
update_accreditation_documents_deletes_compliance(id, data) ==
    /\ Tick
    /\ UNCHANGED issued
    /\ IF ~organization_exists(id)
       THEN not_found(id)
       ELSE /\ commit([db EXCEPT
                  !.compliance_documents = delete_where(@, id),
                  !.accreditation_documents =
                      delete_where(@, id) \o
                      accreditation_document_rows(id,
                          attr(AccreditationUpdate_defaults, data,
                               "accreditation_documents"))])
            /\ return("Organization", db.organizations[id])

update_accreditation_documents(id, data) ==
    /\ Tick
    /\ UNCHANGED issued
    /\ IF ~organization_exists(id)
       THEN not_found(id)
       ELSE /\ commit([db EXCEPT !.accreditation_documents =
                  delete_where(@, id) \o
                  accreditation_document_rows(id,
                      attr(AccreditationUpdate_defaults, data,
                           "accreditation_documents"))])
            /\ return("Organization", db.organizations[id])

\* values.get(key)
get(values, key) == IF key \in DOMAIN values THEN values[key] ELSE None

\* OtherLabDetailsUpdate.validate_gps(v, values), run for gps_latitude and
\* for gps_longitude when the client sent the field; values holds the
\* fields declared before the one under validation
validate_gps(v, values) ==
    LET lat == get(values, "gps_latitude")
        lon == IF "gps_longitude" \in DOMAIN values THEN v
               ELSE get(values, "gps_longitude")
    IN  IF Truthy(lat) /\ Truthy(lon) /\ ~validate_coordinates(lat, lon)
        THEN ValueError
        ELSE v

\* the fields of OtherLabDetailsUpdate declared before field f
OtherLabDetailsUpdate_before(f) ==
    {"other_details", "other_details_document_url",
     "layout_lab_premises_url", "organization_chart_url"} \cup
    (IF f = "gps_longitude" THEN {"gps_latitude"} ELSE {})

\* the request body data fails OtherLabDetailsUpdate: validate_gps raises
\* for one of the GPS fields the client sent
OtherLabDetailsUpdate_raises(data) ==
    \E f \in {"gps_latitude", "gps_longitude"} \cap DOMAIN data :
        validate_gps(data[f],
            [g \in OtherLabDetailsUpdate_before(f) |->
                attr(OtherLabDetailsUpdate_defaults, data, g)]) = ValueError

\* the keys of data_dict the service passes through float()
gps_converted(data_dict) ==
    {f \in {"gps_latitude", "gps_longitude"} :
        f \in DOMAIN data_dict /\ Truthy(data_dict[f])}

\* data_dict after "Convert GPS coordinates to float"
gps_to_float(data_dict) ==
    [f \in DOMAIN data_dict |->
        IF f \in gps_converted(data_dict) THEN float(data_dict[f])
        ELSE data_dict[f]]

update_other_lab_details(id, data) ==
    /\ Tick
    /\ UNCHANGED issued
    /\ IF OtherLabDetailsUpdate_raises(data)
       THEN raise(RequestValidationError, "Invalid GPS coordinates")
       ELSE IF ~organization_exists(id)
       THEN not_found(id)
       ELSE LET data_dict == model_dump_exclude_unset(data, {})
            IN  IF \E f \in gps_converted(data_dict) :
                       float(data_dict[f]) = ValueError
                THEN raise(ValueError, float_detail)
                ELSE /\ commit([db EXCEPT !.other_lab_details =
                           upsert(@, OtherLabDetails_columns, id,
                               gps_to_float(data_dict),
                               gps_to_float(data_dict))])
                     /\ return("Organization", db.organizations[id])

\* ------------------------------------------------------------------------
\* Step 9: quality manual and SOPs
\* ------------------------------------------------------------------------

\* the entries of manual_data that pass "if value is not None"
not_none(dump) ==
    [f \in {g \in DOMAIN dump : dump[g] /= None} |-> dump[f]]

\* Model(organization_id=id, **item.model_dump(), order_index=idx) raises
\* TypeError for the first item whose dump has an order_index key
ordered_rows_raise(item_defaults, items) ==
    \E i \in 1..Len(items) :
        kwargs_clash(model_dump(item_defaults, items[i], {}), {"order_index"})

\* the rows built by "for idx, item in enumerate(items)"
ordered_rows(columns, item_defaults, id, items) ==
    [i \in 1..Len(items) |->
        new_row(columns, id,
            [order_index |-> i - 1] @@
            model_dump(item_defaults, items[i], {}))]

update_quality_manual(id, data) ==
    /\ Tick
    /\ UNCHANGED issued
    /\ IF ~organization_exists(id)
       THEN not_found(id)
       ELSE LET manual_data == model_dump(QualityManualUpdate_defaults, data,
                                          {"sops"})
                manuals == upsert(db.quality_manuals, QualityManual_columns,
                                  id, not_none(manual_data), manual_data)
                items == attr(QualityManualUpdate_defaults, data, "sops")
            IN  IF ordered_rows_raise(SOPCreate_defaults, items)
                THEN raise(TypeError, kwargs_detail)
                ELSE /\ commit([db EXCEPT
                           !.quality_manuals = manuals,
                           !.sops = delete_where(@, id) \o
                               ordered_rows(SOP_columns, SOPCreate_defaults,
                                            id, items)])
                     /\ return("Organization", db.organizations[id])

\* ------------------------------------------------------------------------
\* Step 10: quality formats and procedures
\* ------------------------------------------------------------------------

update_quality_formats(id, data) ==
    /\ Tick
    /\ UNCHANGED issued
    /\ IF ~organization_exists(id)
       THEN not_found(id)
       ELSE LET formats == attr(QualityFormatsUpdate_defaults, data,
                                "quality_formats")
                procedures == attr(QualityFormatsUpdate_defaults, data,
                                   "quality_procedures")
            IN  IF \/ ordered_rows_raise(QualityFormatCreate_defaults, formats)
                   \/ ordered_rows_raise(QualityProcedureCreate_defaults,
                                         procedures)
                THEN raise(TypeError, kwargs_detail)
                ELSE /\ commit([db EXCEPT
                           !.quality_formats = delete_where(@, id) \o
                               ordered_rows(QualityFormat_columns,
                                   QualityFormatCreate_defaults, id, formats),
                           !.quality_procedures = delete_where(@, id) \o
                               ordered_rows(QualityProcedure_columns,
                                   QualityProcedureCreate_defaults, id,
                                   procedures)])
                     /\ return("Organization", db.organizations[id])

\* ------------------------------------------------------------------------
\* Validation and submission
\* ------------------------------------------------------------------------

\* the fields the Step 1 checklist item reports in required_fields
step1_required_fields ==
    <<"lab_name", "lab_address", "lab_state", "lab_district", "lab_city",
      "lab_pin_code">>

\* step1_complete = all([...]) of get_checklist
step1_complete(organization) ==
    /\ Truthy(organization.lab_name)
    /\ Truthy(organization.lab_address)
    /\ Truthy(organization.lab_state)
    /\ Truthy(organization.lab_district)
    /\ Truthy(organization.lab_city)
    /\ Truthy(organization.lab_pin_code)
    /\ Truthy(organization.lab_proof_of_address)

\* the list "steps" get_checklist builds
checklist_steps(organization) ==
    << [step_id |-> 1, step_name |-> "Laboratory Details",
        is_completed |-> step1_complete(organization),
        required_fields |-> step1_required_fields,
        missing_fields |-> <<>>] >>

\* the ChecklistResponse with all(steps) in place of
\* all(step.is_completed for step in steps): a non-empty list is ready
ChecklistResponse_all_steps(id, steps) ==
    LET completed_steps ==
            Cardinality({i \in 1..Len(steps) : steps[i].is_completed})
    IN  [organization_id |-> id,
         overall_completion |->
             IF Len(steps) > 0 THEN (completed_steps * 100) \div Len(steps)
             ELSE 0,
         is_ready_for_submission |-> Len(steps) > 0,
         steps |-> steps]

\* the ChecklistResponse computed from "steps"; overall_completion is the
\* float (completed_steps / len(steps)) * 100, a whole number here
ChecklistResponse(id, steps) ==
    LET completed_steps ==
            Cardinality({i \in 1..Len(steps) : steps[i].is_completed})
    IN  [organization_id |-> id,
         overall_completion |->
             IF Len(steps) > 0 THEN (completed_steps * 100) \div Len(steps)
             ELSE 0,
         is_ready_for_submission |->
             \A i \in 1..Len(steps) : steps[i].is_completed,
         steps |-> steps]

\* the value OrganizationService.get_checklist returns for an existing id
checklist(id) == ChecklistResponse(id, checklist_steps(db.organizations[id]))

\* get_checklist committing a touch of the Organization row
get_checklist_touching(id) ==
    /\ Tick
    /\ UNCHANGED issued
    /\ IF ~organization_exists(id)
       THEN not_found(id)
       ELSE /\ commit([db EXCEPT !.organizations[id].updated_at = now + 1])
            /\ return("ChecklistResponse", checklist(id))

get_checklist(id) ==
    /\ Tick
    /\ UNCHANGED issued
    /\ IF ~organization_exists(id)
       THEN not_found(id)
       ELSE /\ session_close
            /\ return("ChecklistResponse", checklist(id))

\* submit_organization without the completeness check
submit_organization_unchecked(id) ==
    /\ Tick
    /\ UNCHANGED issued
    /\ IF ~organization_exists(id)
       THEN not_found(id)
       ELSE LET old == db.organizations[id]
                organization ==
                    flush_organization(old, [old EXCEPT !.status = SUBMITTED],
                                       now + 1)
            IN  /\ commit([db EXCEPT !.organizations[id] = organization])
                /\ return("Organization", organization)

submit_organization(id) ==
    /\ Tick
    /\ UNCHANGED issued
    /\ IF ~organization_exists(id)
       THEN not_found(id)
       ELSE IF ~checklist(id).is_ready_for_submission
       THEN raise(BadRequestException, incomplete_detail)
       ELSE LET old == db.organizations[id]
                organization ==
                    flush_organization(old, [old EXCEPT !.status = SUBMITTED],
                                       now + 1)
            IN  /\ commit([db EXCEPT !.organizations[id] = organization])
                /\ return_model(HTTP_200_OK, db', id)

\* ------------------------------------------------------------------------
\* The service: requests are served one at a time, in any order
\* ------------------------------------------------------------------------

Next ==
    \/ \E d \in OrganizationCreate_payloads : create_organization(d)
    \/ \E id \in OrgIds : get_organization(id)
    \/ \E id \in OrgIds : delete_organization(id)
    \/ \E id \in OrgIds, d \in LaboratoryDetailsUpdate_payloads :
           update_laboratory_details(id, d)
    \/ \E id \in OrgIds, d \in RegisteredOfficeUpdate_payloads :
           update_registered_office(id, d)
    \/ \E id \in OrgIds, d \in ParentOrganizationUpdate_payloads :
           update_parent_organization(id, d)
    \/ \E id \in OrgIds, d \in BankDetailsUpdate_payloads :
           update_bank_details(id, d)
    \/ \E id \in OrgIds, d \in WorkingScheduleUpdate_payloads :
           update_working_schedule(id, d)
    \/ \E id \in OrgIds, d \in ComplianceDocumentsUpdate_payloads :
           update_compliance_documents(id, d)
    \/ \E id \in OrgIds, d \in PolicyDocumentsUpdate_payloads :
           update_policy_documents(id, d)
    \/ \E id \in OrgIds, d \in InfrastructureUpdate_payloads :
           update_infrastructure(id, d)
    \/ \E id \in OrgIds, d \in AccreditationUpdate_payloads :
           update_accreditation_documents(id, d)
    \/ \E id \in OrgIds, d \in OtherLabDetailsUpdate_payloads :
           update_other_lab_details(id, d)
    \/ \E id \in OrgIds, d \in QualityManualUpdate_payloads :
           update_quality_manual(id, d)
    \/ \E id \in OrgIds, d \in QualityFormatsUpdate_payloads :
           update_quality_formats(id, d)
    \/ \E id \in OrgIds : get_checklist(id)
    \/ \E id \in OrgIds : submit_organization(id)

Spec == Init /\ [][Next]_vars

\* ------------------------------------------------------------------------
\* validate_coordinates called on its own: the response holds the two
\* arguments of the call and, once the call is made, what it returned
\* ------------------------------------------------------------------------

\* the Optional[str] values a caller passes for a coordinate
Coordinates ==
    {None, "", "abc", "0", "45", "45.0", "72.8777", "90", "-90", "90.5",
     "-90.5", "180", "-180", "180.5", "-180.5", "200"}

InitCoordinates ==
    /\ db = <<>>
    /\ issued = {}
    /\ now = 0
    /\ \E latitude \in Coordinates, longitude \in Coordinates :
           response = [latitude |-> latitude, longitude |-> longitude,
                       returns |-> None, body |-> None]

call_validate_coordinates ==
    /\ now = 0
    /\ now' = 1
    /\ UNCHANGED <<db, issued>>
    /\ response' = [response EXCEPT
           !.returns = "bool",
           !.body = validate_coordinates(response.latitude,
                                         response.longitude)]

NextCoordinates == call_validate_coordinates

SpecCoordinates == InitCoordinates /\ [][NextCoordinates]_vars

\* ------------------------------------------------------------------------
\* validate_mobile_number called on its own: the response holds the
\* argument of the call and, once the call is made, what it returned
\* ------------------------------------------------------------------------

\* most digits a caller writes after the prefix of a mobile number
MaxDigits == 11

\* what a caller writes before the digits
MobilePrefixes ==
    {<<>>, <<"+">>, <<"9", "1">>, <<"+", "9", "1">>, <<"+", "9", "2">>,
     <<"8", "1">>, <<"+", "+", "9", "1">>, <<"0">>}

\* the digits a caller writes, of which a number takes the first n
MobileDigits ==
    <<"9", "8", "7", "6", "5", "4", "3", "2", "1", "0", "5", "6", "7">>

\* the n first digits, with the separator sep (none when empty) written
\* after the fifth digit
separated(n, sep) ==
    IF n < 5 THEN SubSeq(MobileDigits, 1, n)
    ELSE SubSeq(MobileDigits, 1, 5) \o sep \o SubSeq(MobileDigits, 6, n)

\* the strings a caller passes as mobile, character by character
Mobiles ==
    {<<"1", "2", "3", "4", "5">>} \cup
    {prefix \o separated(n, sep) \o suffix :
        prefix \in MobilePrefixes, n \in 0..MaxDigits,
        sep \in {<<>>, <<" ">>, <<"-">>},
        suffix \in {<<>>, <<"\n">>, <<"+">>, <<"a">>}}

InitMobile ==
    /\ db = <<>>
    /\ issued = {}
    /\ now = 0
    /\ \E mobile \in Mobiles :
           response = [mobile |-> mobile, returns |-> None, body |-> None]

call_validate_mobile_number ==
    /\ now = 0
    /\ now' = 1
    /\ UNCHANGED <<db, issued>>
    /\ response' = [response EXCEPT
           !.returns = "bool",
           !.body = validate_mobile_number(response.mobile)]

NextMobile == call_validate_mobile_number

SpecMobile == InitMobile /\ [][NextMobile]_vars

\* ------------------------------------------------------------------------
\* modules/files/storage.py: FileStorageService.  The store is the upload
\* directory: the set of the files written, each with its path (the
\* folders and the file name, in order) and size.
\* ------------------------------------------------------------------------

\* number of uploads in a run
MaxSaves == 2

\* core/config.py: Settings
MAX_FILE_SIZE == 2097152
MAX_IMAGE_SIZE == 1048576
allowed_image_types_list == {"image/jpeg", "image/png", "image/jpg"}
allowed_document_types_list == {"application/pdf"}

\* the uploads the clients send: the size in bytes, the content type and the
\* file name of the multipart part
UploadFiles ==
    [size : {0, MAX_IMAGE_SIZE, MAX_IMAGE_SIZE + 1, MAX_FILE_SIZE,
             MAX_FILE_SIZE + 1},
     content_type : {"image/jpeg", "image/png", "application/pdf",
                     "text/plain", None},
     filename : {"logo.png", "lab report.pdf", "README"}]

\* the doc_type values the clients send
DocTypes == {"general", "compliance"}

\* helpers.sanitize_filename(filename) at the second t: the name without the
\* characters other than word characters, spaces, dots and dashes and with
\* spaces as underscores, the timestamp, and the extension when there is
\* one
sanitize_filename(filename, t) ==
    CASE filename = "logo.png"       -> <<"logo", t, "png">>
      [] filename = "lab report.pdf" -> <<"lab_report", t, "pdf">>
      [] filename = "README"         -> <<"README", t>>

\* validate_file with the size limit of documents for every category
validate_file_document_limit(file, file_type) ==
    LET max_size == MAX_FILE_SIZE
        allowed_types == IF file_type = "image"
                         THEN allowed_image_types_list
                         ELSE allowed_document_types_list
    IN  IF file.size > max_size THEN FileUploadException
        ELSE IF file.content_type \notin allowed_types
        THEN FileUploadException
        ELSE None

\* FileStorageService.validate_file: the exception it raises, None when it
\* returns True
validate_file(file, file_type) ==
    LET max_size == IF file_type = "image" THEN MAX_IMAGE_SIZE
                    ELSE MAX_FILE_SIZE
        allowed_types == IF file_type = "image"
                         THEN allowed_image_types_list
                         ELSE allowed_document_types_list
    IN  IF file.size > max_size THEN FileUploadException
        ELSE IF file.content_type \notin allowed_types
        THEN FileUploadException
        ELSE None

\* open(file_path, "wb") and shutil.copyfileobj: the file at the path is
\* created, or replaced when the path exists
written(directory, path, size) ==
    {f \in directory : f.path /= path} \cup {[path |-> path, size |-> size]}

InitFiles ==
    /\ db = {}
    /\ issued = {}
    /\ now = 0
    /\ response = [raised |-> None, detail |-> None, returns |-> None,
                   body |-> None, status_code |-> 0]

save_file(file, subfolder, file_type) ==
    /\ now < MaxSaves
    /\ now' = now + 1
    /\ UNCHANGED issued
    /\ IF validate_file(file, file_type) = FileUploadException
       THEN /\ db' = db
            /\ reply(FileUploadException, "Failed to save file", None, None)
       ELSE LET safe_filename == sanitize_filename(file.filename, now + 1)
                file_path == subfolder \o <<safe_filename>>
            IN  /\ db' = written(db, file_path, file.size)
                /\ return("str", <<"/uploads">> \o file_path)

save_logo(file) == save_file(file, <<"logos">>, "image")

save_document(file, doc_type) ==
    save_file(file, <<"documents", doc_type>>, "document")

NextFiles ==
    \/ \E file \in UploadFiles : save_logo(file)
    \/ \E file \in UploadFiles, doc_type \in DocTypes :
           save_document(file, doc_type)

SpecFiles == InitFiles /\ [][NextFiles]_vars

\* ------------------------------------------------------------------------
\* Concurrent requests. Each request is served with a Session of its own,
\* so its reads and writes are one database transaction; transactions of
\* different requests interleave statement by statement. The store is
\* PostgreSQL (models.py takes its column types from
\* sqlalchemy.dialects.postgresql) at its default isolation level, READ
\* COMMITTED: a statement sees what was committed when it started, a row
\* written by a transaction is locked until that transaction ends, and a
\* statement that finds a row locked waits and then goes on with the rows
\* that still exist. Here db is the committed store, response maps every
\* session to the state of its request, and rows carry their primary key.
\* ------------------------------------------------------------------------

\* the number of requests in flight
MaxSessions == 2

Sessions == 1..MaxSessions

\* Column(UUID, primary_key=True, default=uuid.uuid4) of the child models:
\* the i-th row of the list gets a key no other row has
with_primary_keys(rows, s) ==
    [i \in 1..Len(rows) |-> rows[i] @@ [id |-> <<s, i>>]]

\* the payloads the Organization of the initial store was filled with
BankDetailsUpdate_stored ==
    CHOOSE d \in BankDetailsUpdate_payloads : "ifsc_code" \in DOMAIN d

WorkingScheduleUpdate_stored ==
    CHOOSE d \in WorkingScheduleUpdate_payloads :
        d.organization_type = "Government"

\* a session before its request arrives
idle(autoflush) ==
    [pc |-> "idle", op |-> None, id |-> 0, data |-> None,
     organization |-> <<>>, child |-> <<>>, deleted |-> {}, locks |-> {},
     autoflush |-> autoflush,
     raised |-> None, detail |-> None, returns |-> None, body |-> None,
     status_code |-> 0]

\* one Organization is stored, either as create_organization left it or
\* with the bank details, working schedule and shift timing that earlier
\* step updates gave it; the Session factory is configured with or without
\* autoflush
InitConcurrent ==
    /\ issued = {1}
    /\ now = 0
    /\ \E filled \in BOOLEAN, autoflush \in BOOLEAN :
          /\ db = [organizations |->
                       << new_organization(
                              CHOOSE d \in OrganizationCreate_payloads :
                                  d.lab_pin_code = "400001", 0) >>,
                   registered_offices |-> <<>>, top_management |-> <<>>,
                   parent_organizations |-> <<>>,
                   bank_details |->
                       IF filled
                       THEN with_primary_keys(
                                << new_row(BankDetails_columns, 1,
                                       model_dump(BankDetailsUpdate_defaults,
                                           BankDetailsUpdate_stored, {})) >>,
                                0)
                       ELSE <<>>,
                   working_schedules |->
                       IF filled
                       THEN with_primary_keys(
                                << new_row(WorkingSchedule_columns, 1,
                                       model_dump(
                                           WorkingScheduleUpdate_defaults,
                                           WorkingScheduleUpdate_stored,
                                           {"shift_timings"})) >>,
                                0)
                       ELSE <<>>,
                   shift_timings |->
                       IF filled
                       THEN with_primary_keys(
                                shift_timing_rows(1,
                                    WorkingScheduleUpdate_stored
                                        .shift_timings),
                                0)
                       ELSE <<>>,
                   compliance_documents |-> <<>>, policy_documents |-> <<>>,
                   infrastructure_details |-> <<>>,
                   accreditation_documents |-> <<>>,
                   other_lab_details |-> <<>>,
                   quality_manuals |-> <<>>, sops |-> <<>>,
                   quality_formats |-> <<>>, quality_procedures |-> <<>>]
          /\ response = [s \in Sessions |-> idle(autoflush)]

\* the request of session s ends: its transaction is over, its locks are
\* released, and the answer is what the caller observes
answered(s, status_code, raised, detail, returns, body) ==
    response' = [response EXCEPT ![s] =
        [@ EXCEPT !.pc = "done", !.locks = {},
                  !.status_code = status_code, !.raised = raised,
                  !.detail = detail, !.returns = returns, !.body = body]]

\* the request of session s raises exc: the session is closed and nothing
\* it staged persists
raised_in(s, exc, detail) ==
    /\ UNCHANGED <<db, issued, now>>
    /\ answered(s, status_code_of(exc), exc, detail, None, None)

\* organization = OrganizationService.get_organization(db, organization_id)
\* followed by the test "if organization.<child>", whose lazy load reads
\* the child row committed at that moment (table is None for Step 1)
load(s, op, id, data, table) ==
    /\ response[s].pc = "idle"
    /\ IF ~organization_exists(id)
       THEN raised_in(s, NotFoundException,
                      <<"Organization with ID", id, "not found">>)
       ELSE /\ UNCHANGED <<db, issued, now>>
            /\ response' = [response EXCEPT ![s] =
                   [@ EXCEPT
                       !.pc = "loaded", !.op = op, !.id = id,
                       !.data = data,
                       !.organization = <<db.organizations[id]>>,
                       !.child =
                           IF table /= None /\ has_row(db[table], id)
                           THEN <<db[table][first_of(db[table], id)]>>
                           ELSE <<>>]]

\* the columns of the UPDATE the unit of work emits for a loaded row: those
\* setattr gave a value other than the loaded one
modified(loaded, dump) ==
    {f \in (DOMAIN dump) \cap (DOMAIN loaded) : dump[f] /= loaded[f]}

\* UPDATE ... SET <modified columns> WHERE id = <key>, applied to the row
\* as committed when the statement runs
update_row(row, loaded, dump) ==
    [f \in DOMAIN row |->
        IF f \in modified(loaded, dump) THEN dump[f] ELSE row[f]]

\* another session holds the lock of one of the rows
locked_by_other(s, keys) ==
    \E t \in Sessions \ {s} : response[t].locks \cap keys /= {}

\* the write of the singleton step of session s on the table: an UPDATE
\* of the row the request loaded, or the INSERT of a new row when it
\* loaded none
write_singleton(rows, columns, s, update_dump, create_kwargs) ==
    IF response[s].child /= <<>>
    THEN [i \in 1..Len(rows) |->
             IF rows[i].id = response[s].child[1].id
             THEN update_row(rows[i], response[s].child[1], update_dump)
             ELSE rows[i]]
    ELSE rows \o
         with_primary_keys(
             << new_row(columns, response[s].id, create_kwargs) >>, s)

\* the keys of the rows an UPDATE of the singleton step has to lock
singleton_keys(s, update_dump) ==
    IF /\ response[s].child /= <<>>
       /\ modified(response[s].child[1], update_dump) /= {}
    THEN {response[s].child[1].id}
    ELSE {}

\* ---- Step 1 ----

update_laboratory_details_load(s, id, data) ==
    IF LaboratoryDetailsUpdate_raises(data)
    THEN /\ response[s].pc = "idle"
         /\ raised_in(s, RequestValidationError, "Invalid PIN code format")
    ELSE load(s, "update_laboratory_details", id, data, None)

\* update_laboratory_details_commit with a version counter on the
\* organizations row (here its update timestamp): the UPDATE matches no
\* row when the row changed since it was loaded and the commit raises
update_laboratory_details_commit_versioned(s) ==
    /\ response[s].pc = "loaded"
    /\ response[s].op = "update_laboratory_details"
    /\ LET id == response[s].id
           loaded == response[s].organization[1]
           dump == model_dump_exclude_unset(response[s].data, {})
           organization ==
               flush_organization(db.organizations[id],
                   update_row(db.organizations[id], loaded, dump), now + 1)
       IN  IF db.organizations[id].updated_at /= loaded.updated_at
           THEN raised_in(s, "StaleDataError", "UPDATE matched 0 rows")
           ELSE /\ db' = [db EXCEPT !.organizations[id] = organization]
                /\ now' = now + 1
                /\ UNCHANGED issued
                /\ answered(s,
                       IF OrganizationResponse_validates(db', id)
                       THEN HTTP_200_OK
                       ELSE HTTP_500_INTERNAL_SERVER_ERROR,
                       None, None, "Organization", db'.organizations[id])

\* the setattr loop, db.commit() and db.refresh(organization) of
\* update_laboratory_details: the UPDATE of the modified columns is
\* flushed and committed, and the row is read back
update_laboratory_details_commit(s) ==
    /\ response[s].pc = "loaded"
    /\ response[s].op = "update_laboratory_details"
    /\ LET id == response[s].id
           loaded == response[s].organization[1]
           dump == model_dump_exclude_unset(response[s].data, {})
           organization ==
               flush_organization(db.organizations[id],
                   update_row(db.organizations[id], loaded, dump), now + 1)
       IN  /\ db' = [db EXCEPT !.organizations[id] = organization]
           /\ now' = now + 1
           /\ UNCHANGED issued
           /\ answered(s,
                  IF OrganizationResponse_validates(db', id)
                  THEN HTTP_200_OK
                  ELSE HTTP_500_INTERNAL_SERVER_ERROR,
                  None, None, "Organization", db'.organizations[id])

\* ---- Step 3, bank details ----

update_bank_details_load(s, id, data) ==
    load(s, "update_bank_details", id, data, "bank_details")

\* the upsert branch, db.commit() and db.refresh(organization) of
\* update_bank_details
update_bank_details_commit(s) ==
    /\ response[s].pc = "loaded"
    /\ response[s].op = "update_bank_details"
    /\ LET id == response[s].id
           data == response[s].data
       IN  /\ db' = [db EXCEPT !.bank_details =
                  write_singleton(@, BankDetails_columns, s,
                      model_dump_exclude_unset(data, {}),
                      model_dump(BankDetailsUpdate_defaults, data, {}))]
           /\ now' = now + 1
           /\ UNCHANGED issued
           /\ answered(s, HTTP_200_OK, None, None, "Organization",
                       [organization |-> db'.organizations[id],
                        bank_details |-> rows_of(db'.bank_details, id)])

\* ---- Step 4, working schedule and shift timings ----

update_working_schedule_load(s, id, data) ==
    load(s, "update_working_schedule", id, data, "working_schedules")

\* db.query(models.ShiftTiming).filter(...).delete() is sent: a Session
\* with autoflush first flushes the pending write of the working schedule,
\* whose UPDATE waits while another transaction holds the row; the DELETE
\* then takes as its rows the shift timings committed at this moment
update_working_schedule_delete(s) ==
    /\ response[s].pc = "loaded"
    /\ response[s].op = "update_working_schedule"
    /\ LET id == response[s].id
           keys == IF response[s].autoflush
                   THEN singleton_keys(s,
                            model_dump_exclude_unset(response[s].data,
                                                     {"shift_timings"}))
                   ELSE {}
           shifts == rows_of(db.shift_timings, id)
       IN  /\ ~locked_by_other(s, keys)
           /\ response' = [response EXCEPT ![s] =
                  [@ EXCEPT !.pc = "deleting",
                            !.locks = keys,
                            !.deleted =
                                {shifts[i].id : i \in 1..Len(shifts)}]]
    /\ UNCHANGED <<db, issued, now>>

\* the DELETE completes, having waited for every transaction that holds
\* one of its rows: it locks the rows that still exist; then the loop over
\* data.shift_timings builds the new rows, or raises at a time string
\* strptime rejects
update_working_schedule_loop(s) ==
    /\ response[s].pc = "deleting"
    /\ ~locked_by_other(s, response[s].deleted)
    /\ LET id == response[s].id
           shifts == rows_of(db.shift_timings, id)
           found == response[s].deleted \cap
                    {shifts[i].id : i \in 1..Len(shifts)}
           items == attr(WorkingScheduleUpdate_defaults, response[s].data,
                         "shift_timings")
       IN  IF shift_timings_raise(items)
           THEN raised_in(s, ValueError, strptime_detail)
           ELSE /\ UNCHANGED <<db, issued, now>>
                /\ response' = [response EXCEPT ![s] =
                       [@ EXCEPT !.pc = "deleted",
                                 !.deleted = found,
                                 !.locks = @ \cup found]]

\* update_working_schedule_commit whose DELETE removes the shift timings
\* stored at the commit, as it would had the requests been served one
\* after the other
update_working_schedule_commit_serialized(s) ==
    /\ response[s].pc = "deleted"
    /\ LET id == response[s].id
           data == response[s].data
           update_dump == model_dump_exclude_unset(data, {"shift_timings"})
           items == attr(WorkingScheduleUpdate_defaults, data,
                         "shift_timings")
       IN  /\ ~locked_by_other(s, singleton_keys(s, update_dump))
           /\ db' = [db EXCEPT
                  !.working_schedules =
                      write_singleton(@, WorkingSchedule_columns, s,
                          update_dump,
                          model_dump(WorkingScheduleUpdate_defaults, data,
                                     {"shift_timings"})),
                  !.shift_timings =
                      delete_where(@, id) \o
                      with_primary_keys(shift_timing_rows(id, items), s)]
           /\ now' = now + 1
           /\ UNCHANGED issued
           /\ answered(s, HTTP_200_OK, None, None, "Organization",
                       [organization |-> db'.organizations[id],
                        shift_timings |-> rows_of(db'.shift_timings, id)])

\* db.commit() and db.refresh(organization) of update_working_schedule:
\* the write of the working schedule, the DELETE of the rows it found and
\* the INSERT of the new shift timings become the store
update_working_schedule_commit(s) ==
    /\ response[s].pc = "deleted"
    /\ LET id == response[s].id
           data == response[s].data
           update_dump == model_dump_exclude_unset(data, {"shift_timings"})
           items == attr(WorkingScheduleUpdate_defaults, data,
                         "shift_timings")
       IN  /\ ~locked_by_other(s, singleton_keys(s, update_dump))
           /\ db' = [db EXCEPT
                  !.working_schedules =
                      write_singleton(@, WorkingSchedule_columns, s,
                          update_dump,
                          model_dump(WorkingScheduleUpdate_defaults, data,
                                     {"shift_timings"})),
                  !.shift_timings =
                      SelectSeq(@, LAMBDA r :
                          r.id \notin response[s].deleted) \o
                      with_primary_keys(shift_timing_rows(id, items), s)]
           /\ now' = now + 1
           /\ UNCHANGED issued
           /\ answered(s, HTTP_200_OK, None, None, "Organization",
                       [organization |-> db'.organizations[id],
                        shift_timings |-> rows_of(db'.shift_timings, id)])

NextConcurrent ==
    \/ \E s \in Sessions, id \in OrgIds,
          d \in LaboratoryDetailsUpdate_payloads :
           update_laboratory_details_load(s, id, d)
    \/ \E s \in Sessions : update_laboratory_details_commit(s)
    \/ \E s \in Sessions, id \in OrgIds, d \in BankDetailsUpdate_payloads :
           update_bank_details_load(s, id, d)
    \/ \E s \in Sessions : update_bank_details_commit(s)
    \/ \E s \in Sessions, id \in OrgIds,
          d \in WorkingScheduleUpdate_payloads :
           update_working_schedule_load(s, id, d)
    \/ \E s \in Sessions : update_working_schedule_delete(s)
    \/ \E s \in Sessions : update_working_schedule_loop(s)
    \/ \E s \in Sessions : update_working_schedule_commit(s)

SpecConcurrent == InitConcurrent /\ [][NextConcurrent]_vars

\* a request of one of the twelve step updates for the Organization id
StepUpdate(id) ==
    \/ \E d \in LaboratoryDetailsUpdate_payloads :
           update_laboratory_details(id, d)
    \/ \E d \in RegisteredOfficeUpdate_payloads :
           update_registered_office(id, d)
    \/ \E d \in ParentOrganizationUpdate_payloads :
           update_parent_organization(id, d)
    \/ \E d \in BankDetailsUpdate_payloads : update_bank_details(id, d)
    \/ \E d \in WorkingScheduleUpdate_payloads :
           update_working_schedule(id, d)
    \/ \E d \in ComplianceDocumentsUpdate_payloads :
           update_compliance_documents(id, d)
    \/ \E d \in PolicyDocumentsUpdate_payloads :
           update_policy_documents(id, d)
    \/ \E d \in InfrastructureUpdate_payloads : update_infrastructure(id, d)
    \/ \E d \in AccreditationUpdate_payloads :
           update_accreditation_documents(id, d)
    \/ \E d \in OtherLabDetailsUpdate_payloads :
           update_other_lab_details(id, d)
    \/ \E d \in QualityManualUpdate_payloads : update_quality_manual(id, d)
    \/ \E d \in QualityFormatsUpdate_payloads :
           update_quality_formats(id, d)

\* a request of any operation that takes the organization id
Request(id) ==
    \/ get_organization(id)
    \/ delete_organization(id)
    \/ StepUpdate(id)
    \/ get_checklist(id)
    \/ submit_organization(id)

\* ------------------------------------------------------------------------
\* Properties
\* ------------------------------------------------------------------------

\* the status of a stored Organization
status_of(store, id) == store.organizations[id].status

\* C1: a submit_organization call on an existing Organization returns the
\* Organization with status Submitted when the checklist computed at that
\* moment is ready for submission; otherwise it raises BadRequestException
\* and the whole store (Organization row and every child row) is unchanged.
C1_SubmitGate ==
    [][\A id \in OrgIds :
          (organization_exists(id) /\ submit_organization(id)) =>
              IF checklist(id).is_ready_for_submission
              THEN /\ response'.raised = None
                   /\ response'.returns = "Organization"
                   /\ response'.body.status = SUBMITTED
                   /\ status_of(db', id) = SUBMITTED
              ELSE /\ response'.raised = BadRequestException
                   /\ db' = db]_vars

\* an Organization was submitted by the request just served
C1_Witness ==
    \E id \in DOMAIN db.organizations :
        /\ status_of(db, id) = SUBMITTED
        /\ db.organizations[id].updated_at = now
        /\ response.raised = None

\* C2: an Organization is created in status Draft; a request changes the
\* status of an Organization only if it is a submit_organization of that
\* Organization, and then to Submitted; no Organization is ever Approved or
\* Rejected, and a Submitted Organization stays Submitted while it exists.
C2_StatusTransitions ==
    [][\A id \in OrgIds :
          /\ (id \notin DOMAIN db.organizations
                /\ id \in DOMAIN db'.organizations)
             => status_of(db', id) = DRAFT
          /\ id \in DOMAIN db'.organizations
             => status_of(db', id) \notin {APPROVED, REJECTED}
          /\ (id \in DOMAIN db.organizations
                /\ id \in DOMAIN db'.organizations)
             => /\ status_of(db', id) /= status_of(db, id)
                   => (submit_organization(id)
                         /\ status_of(db', id) = SUBMITTED)
                /\ status_of(db, id) = SUBMITTED
                   => status_of(db', id) = SUBMITTED]_vars

\* a Submitted Organization that later requests have left Submitted
C2_Witness ==
    \E id \in DOMAIN db.organizations :
        /\ status_of(db, id) = SUBMITTED
        /\ db.organizations[id].updated_at < now

\* the value a column holds once the value v sent in field f is stored:
\* shift times as time-of-day, GPS coordinates as numbers
stored_value(f, v) ==
    IF f \in {"gps_latitude", "gps_longitude"}
    THEN (IF Truthy(v) THEN float(v) ELSE v)
    ELSE IF f \in {"shift_from", "shift_to"} THEN strptime_HM(v)
    ELSE v

\* the rows are the items of the payload list, one row per item, in order
holds_items(rows, items) ==
    /\ Len(rows) = Len(items)
    /\ \A i \in 1..Len(items) :
          \A f \in (DOMAIN items[i]) \ {"order_index"} :
              rows[i][f] = stored_value(f, items[i][f])

\* the step succeeds and leaves exactly the payload's items in the table
CollectionRule(step, table, id, items) ==
    step => /\ response'.raised = None
            /\ holds_items(rows_of(db'[table], id), items)

\* C3: for each of the seven collection children, a step update carrying a
\* well-formed list of n >= 0 items succeeds, and afterwards the
\* Organization has exactly n rows of that type, holding the payload items
\* (no earlier row survives).
C3_CollectionReplaceAll ==
    [][\A id \in OrgIds : organization_exists(id) =>
          /\ \A d \in RegisteredOfficeUpdate_payloads :
                CollectionRule(update_registered_office(id, d),
                    "top_management", id,
                    attr(RegisteredOfficeUpdate_defaults, d, "top_management"))
          /\ \A d \in WorkingScheduleUpdate_payloads :
                ~shift_timings_raise(
                    attr(WorkingScheduleUpdate_defaults, d, "shift_timings"))
                => CollectionRule(update_working_schedule(id, d),
                       "shift_timings", id,
                       attr(WorkingScheduleUpdate_defaults, d, "shift_timings"))
          /\ \A d \in ComplianceDocumentsUpdate_payloads :
                CollectionRule(update_compliance_documents(id, d),
                    "compliance_documents", id,
                    attr(ComplianceDocumentsUpdate_defaults, d,
                         "compliance_documents"))
          /\ \A d \in AccreditationUpdate_payloads :
                CollectionRule(update_accreditation_documents(id, d),
                    "accreditation_documents", id,
                    attr(AccreditationUpdate_defaults, d,
                         "accreditation_documents"))
          /\ \A d \in QualityManualUpdate_payloads :
                CollectionRule(update_quality_manual(id, d), "sops", id,
                    attr(QualityManualUpdate_defaults, d, "sops"))
          /\ \A d \in QualityFormatsUpdate_payloads :
                /\ CollectionRule(update_quality_formats(id, d),
                       "quality_formats", id,
                       attr(QualityFormatsUpdate_defaults, d,
                            "quality_formats"))
                /\ CollectionRule(update_quality_formats(id, d),
                       "quality_procedures", id,
                       attr(QualityFormatsUpdate_defaults, d,
                            "quality_procedures"))]_vars

\* the singleton row of the Organization in a table of the store
singleton_row(store, table, id) == store[table][first_of(store[table], id)]

\* the step, applied to an existing singleton row and succeeding, stores
\* every field the payload holds and keeps every field it omits
SingletonRule(step, table, id, data, exclude) ==
    (has_row(db[table], id) /\ step /\ response'.raised = None) =>
        /\ has_row(db'[table], id)
        /\ \A f \in (DOMAIN data) \ exclude :
              singleton_row(db', table, id)[f] = stored_value(f, data[f])
        /\ \A f \in (DOMAIN singleton_row(db, table, id))
                        \ ((DOMAIN data) \cup {"organization_id"}) :
              singleton_row(db', table, id)[f] = singleton_row(db, table, id)[f]

\* C4: for each of the eight singleton children, a step update applied to
\* an existing child stores the payload's value for every field present in
\* the payload (an explicit null included) and leaves every omitted field
\* at its stored value.
C4_SingletonPartialUpdate ==
    [][\A id \in OrgIds : organization_exists(id) =>
          /\ \A d \in RegisteredOfficeUpdate_payloads :
                SingletonRule(update_registered_office(id, d),
                    "registered_offices", id, d, {"top_management"})
          /\ \A d \in ParentOrganizationUpdate_payloads :
                SingletonRule(update_parent_organization(id, d),
                    "parent_organizations", id, d, {})
          /\ \A d \in BankDetailsUpdate_payloads :
                SingletonRule(update_bank_details(id, d),
                    "bank_details", id, d, {})
          /\ \A d \in WorkingScheduleUpdate_payloads :
                SingletonRule(update_working_schedule(id, d),
                    "working_schedules", id, d, {"shift_timings"})
          /\ \A d \in PolicyDocumentsUpdate_payloads :
                SingletonRule(update_policy_documents(id, d),
                    "policy_documents", id, d, {})
          /\ \A d \in InfrastructureUpdate_payloads :
                SingletonRule(update_infrastructure(id, d),
                    "infrastructure_details", id, d, {})
          /\ \A d \in OtherLabDetailsUpdate_payloads :
                SingletonRule(update_other_lab_details(id, d),
                    "other_lab_details", id, d, {})
          /\ \A d \in QualityManualUpdate_payloads :
                SingletonRule(update_quality_manual(id, d),
                    "quality_manuals", id, d, {"sops"})]_vars

\* a request that succeeded either is not the step or did what the step
\* is to do: create the singleton row of the Organization if there was none
\* (payload fields, the default for every omitted one) and otherwise
\* change the existing row where it is, adding no row
UpsertRule(step, table, columns, defaults, id, data, exclude) ==
    response'.raised = None =>
        \/ IF has_row(db[table], id)
           THEN /\ Len(db'[table]) = Len(db[table])
                /\ first_of(db'[table], id) = first_of(db[table], id)
           ELSE /\ Len(db'[table]) = Len(db[table]) + 1
                /\ has_row(db'[table], id)
                /\ \A f \in DOMAIN columns :
                      singleton_row(db', table, id)[f] =
                          IF f \in (DOMAIN data) \ exclude
                          THEN stored_value(f, data[f])
                          ELSE IF f \in DOMAIN defaults THEN defaults[f]
                          ELSE columns[f]
        \/ ~step

\* C5: after every request each Organization has at most one row of each
\* singleton child type; a successful step update for a singleton creates
\* the row when the Organization has none (payload fields plus defaults for
\* the omitted ones) and otherwise mutates the existing row in place without
\* adding a second one.
C5_SingletonUpsert ==
    [][\A id \in OrgIds :
          /\ \A t \in SingletonTables : Len(rows_of(db'[t], id)) <= 1
          /\ organization_exists(id) =>
             /\ \A d \in RegisteredOfficeUpdate_payloads :
                   UpsertRule(update_registered_office(id, d),
                       "registered_offices", RegisteredOffice_columns,
                       RegisteredOfficeUpdate_defaults, id, d,
                       {"top_management"})
             /\ \A d \in ParentOrganizationUpdate_payloads :
                   UpsertRule(update_parent_organization(id, d),
                       "parent_organizations", ParentOrganization_columns,
                       ParentOrganizationUpdate_defaults, id, d, {})
             /\ \A d \in BankDetailsUpdate_payloads :
                   UpsertRule(update_bank_details(id, d),
                       "bank_details", BankDetails_columns,
                       BankDetailsUpdate_defaults, id, d, {})
             /\ \A d \in WorkingScheduleUpdate_payloads :
                   UpsertRule(update_working_schedule(id, d),
                       "working_schedules", WorkingSchedule_columns,
                       WorkingScheduleUpdate_defaults, id, d,
                       {"shift_timings"})
             /\ \A d \in PolicyDocumentsUpdate_payloads :
                   UpsertRule(update_policy_documents(id, d),
                       "policy_documents", PolicyDocuments_columns,
                       PolicyDocumentsUpdate_defaults, id, d, {})
             /\ \A d \in InfrastructureUpdate_payloads :
                   UpsertRule(update_infrastructure(id, d),
                       "infrastructure_details", InfrastructureDetails_columns,
                       InfrastructureUpdate_defaults, id, d, {})
             /\ \A d \in OtherLabDetailsUpdate_payloads :
                   UpsertRule(update_other_lab_details(id, d),
                       "other_lab_details", OtherLabDetails_columns,
                       OtherLabDetailsUpdate_defaults, id, d, {})
             /\ \A d \in QualityManualUpdate_payloads :
                   UpsertRule(update_quality_manual(id, d),
                       "quality_manuals", QualityManual_columns,
                       QualityManualUpdate_defaults, id, d, {"sops"})]_vars

\* an Organization whose single bank_details row was created by one step
\* update and changed in place by a later one
C5_Witness ==
    \E id \in DOMAIN db.organizations :
        /\ Len(rows_of(db.bank_details, id)) = 1
        /\ singleton_row(db, "bank_details", id).account_holder_name
               = "Test Laboratory"
        /\ singleton_row(db, "bank_details", id).branch_name = "Fort"

\* the step succeeds and row i of the collection has order_index i - 1
OrderRule(step, table, id, items) ==
    step => /\ response'.raised = None
            /\ Len(rows_of(db'[table], id)) = Len(items)
            /\ \A i \in 1..Len(items) :
                  rows_of(db'[table], id)[i].order_index = i - 1

\* C6: for each of the five ordered collections, a step update whose items
\* carry any client-supplied order_index succeeds and stores the item at
\* list position i with order_index i (counted from 0), so that the stored
\* indices are 0..n-1 whatever the client sent.
C6_OrderIndexFromPosition ==
    [][\A id \in OrgIds : organization_exists(id) =>
          /\ \A d \in RegisteredOfficeUpdate_payloads :
                OrderRule(update_registered_office(id, d),
                    "top_management", id,
                    attr(RegisteredOfficeUpdate_defaults, d, "top_management"))
          /\ \A d \in WorkingScheduleUpdate_payloads :
                ~shift_timings_raise(
                    attr(WorkingScheduleUpdate_defaults, d, "shift_timings"))
                => OrderRule(update_working_schedule(id, d),
                       "shift_timings", id,
                       attr(WorkingScheduleUpdate_defaults, d, "shift_timings"))
          /\ \A d \in QualityManualUpdate_payloads :
                OrderRule(update_quality_manual(id, d), "sops", id,
                    attr(QualityManualUpdate_defaults, d, "sops"))
          /\ \A d \in QualityFormatsUpdate_payloads :
                /\ OrderRule(update_quality_formats(id, d),
                       "quality_formats", id,
                       attr(QualityFormatsUpdate_defaults, d,
                            "quality_formats"))
                /\ OrderRule(update_quality_formats(id, d),
                       "quality_procedures", id,
                       attr(QualityFormatsUpdate_defaults, d,
                            "quality_procedures"))]_vars

\* C7: a step update on an existing Organization that fails, whatever it
\* had staged before the failure, leaves every table exactly as it was
\* before the call.
C7_StepAllOrNothing ==
    [][\A id \in OrgIds :
          (organization_exists(id) /\ response'.raised /= None) =>
              (db' = db \/ ~StepUpdate(id))]_vars

\* update_working_schedule has just failed on an unparseable shift time
\* for an Organization that has a WorkingSchedule and ShiftTiming rows
C7_Witness ==
    /\ response.raised = ValueError
    /\ response.detail = strptime_detail
    /\ \E id \in DOMAIN db.organizations :
          /\ has_row(db.working_schedules, id)
          /\ Len(rows_of(db.shift_timings, id)) > 0

\* C8: every operation that takes an organization_id, called with an id no
\* Organization has, raises NotFoundException and leaves every table
\* unchanged (a request whose body fails its schema is refused before the
\* operation is called, and leaves every table unchanged as well).
C8_UnknownIdNotFound ==
    [][\A id \in OrgIds :
          ~organization_exists(id) =>
              \/ response'.raised = NotFoundException /\ db' = db
              \/ response'.raised = RequestValidationError /\ db' = db
              \/ ~Request(id)]_vars

\* a request for an unknown id was just refused while another Organization
\* and a child row of it are stored
C8_Witness ==
    /\ response.raised = NotFoundException
    /\ response.detail[2] \notin DOMAIN db.organizations
    /\ DOMAIN db.organizations /= {}
    /\ \E t \in ChildTables : Len(db[t]) > 0

\* C9: in every checklist returned, the Step 1 item is completed exactly
\* when each of the fields it lists in required_fields is non-empty on the
\* Organization.
C9_Step1RequiredFields ==
    response.returns = "ChecklistResponse" =>
        LET item == response.body.steps[1]
            organization == db.organizations[response.body.organization_id]
        IN  item.is_completed =
                (\A i \in 1..Len(item.required_fields) :
                     Truthy(organization[item.required_fields[i]]))

\* C10: in every checklist returned, is_ready_for_submission is true
\* exactly when every step item is completed, and overall_completion is
\* 100 * (completed step items) / (step items).
C10_ChecklistAggregates ==
    response.returns = "ChecklistResponse" =>
        LET steps == response.body.steps
            completed == {i \in 1..Len(steps) : steps[i].is_completed}
        IN  /\ response.body.is_ready_for_submission =
                   (\A i \in 1..Len(steps) : steps[i].is_completed)
            /\ response.body.overall_completion * Len(steps) =
                   100 * Cardinality(completed)

\* a checklist was returned for an Organization with every step complete
C10_Witness ==
    /\ response.returns = "ChecklistResponse"
    /\ response.body.is_ready_for_submission
    /\ response.body.overall_completion = 100

\* C11: every checklist returned has one item per step of the registration
\* form, ten items with step_id 1..10 in that order.
C11_ChecklistAllSteps ==
    response.returns = "ChecklistResponse" =>
        /\ Len(response.body.steps) = 10
        /\ \A i \in 1..Len(response.body.steps) :
              response.body.steps[i].step_id = i

\* C12: get_checklist, and a submit_organization that is refused because
\* the checklist is not ready, leave every table (Organization rows with
\* status and timestamps, child rows) as it was.
C12_ChecklistReadOnly ==
    [][\A id \in OrgIds :
          \/ db' = db
          \/ /\ ~get_checklist(id)
             /\ ~(submit_organization(id)
                    /\ response'.raised = BadRequestException)]_vars

\* a checklist was just returned for an Organization that has child rows
\* and was changed after its creation
C12_Witness ==
    /\ response.returns = "ChecklistResponse"
    /\ LET id == response.body.organization_id
       IN  /\ \E t \in ChildTables : Len(rows_of(db[t], id)) > 0
           /\ db.organizations[id].created_at < now - 1

\* C13: a successful delete_organization(id) removes the Organization and
\* every child row of it; get_organization on an id that was deleted raises
\* NotFoundException; after every request each child row references an
\* Organization that exists.
C13_DeleteCascade ==
    [][/\ \A id \in OrgIds :
             /\ (organization_exists(id) /\ delete_organization(id)) =>
                   /\ id \notin DOMAIN db'.organizations
                   /\ \A t \in ChildTables : rows_of(db'[t], id) = <<>>
             /\ (id \in issued /\ ~organization_exists(id)
                   /\ get_organization(id)) =>
                   response'.raised = NotFoundException
       /\ \A t \in ChildTables : \A i \in 1..Len(db'[t]) :
             db'[t][i].organization_id \in DOMAIN db'.organizations]_vars

\* an Organization was just deleted while another one keeps child rows
C13_Witness ==
    /\ response.returns = "bool"
    /\ \E id \in issued : id \notin DOMAIN db.organizations
    /\ \E id \in DOMAIN db.organizations :
          \E t \in ChildTables : Len(rows_of(db[t], id)) > 0

\* C14: every successful step update advances the updated_at of its
\* Organization.
C14_StepAdvancesUpdatedAt ==
    [][\A id \in OrgIds :
          (organization_exists(id) /\ response'.raised = None
              /\ id \in DOMAIN db'.organizations) =>
              \/ db'.organizations[id].updated_at
                     > db.organizations[id].updated_at
              \/ ~StepUpdate(id)]_vars

\* rows of the table appear for an Organization that had none only by the
\* step
AppearsOnlyBy(table, id, step) ==
    (/\ db'[table] /= db[table]
     /\ rows_of(db[table], id) = <<>>
     /\ rows_of(db'[table], id) /= <<>>) => step

\* C15: create_organization adds one Organization under an id no
\* Organization has or had, with the payload as root fields and status
\* Draft, and adds no child row; the rows of a child grouping appear for an
\* Organization only by the step update of that grouping.
C15_CreateRootOnly ==
    [][/\ \A d \in OrganizationCreate_payloads :
             create_organization(d) =>
                 \E id \in OrgIds \ (issued \cup DOMAIN db.organizations) :
                     /\ DOMAIN db'.organizations
                            = (DOMAIN db.organizations) \cup {id}
                     /\ \A f \in DOMAIN d : db'.organizations[id][f] = d[f]
                     /\ status_of(db', id) = DRAFT
                     /\ \A o \in DOMAIN db.organizations :
                           db'.organizations[o] = db.organizations[o]
                     /\ \A t \in ChildTables :
                           db'[t] = db[t] /\ rows_of(db'[t], id) = <<>>
       /\ \A id \in OrgIds :
             /\ \A t \in {"registered_offices", "top_management"} :
                   AppearsOnlyBy(t, id,
                       \E d \in RegisteredOfficeUpdate_payloads :
                           update_registered_office(id, d))
             /\ AppearsOnlyBy("parent_organizations", id,
                    \E d \in ParentOrganizationUpdate_payloads :
                        update_parent_organization(id, d))
             /\ AppearsOnlyBy("bank_details", id,
                    \E d \in BankDetailsUpdate_payloads :
                        update_bank_details(id, d))
             /\ \A t \in {"working_schedules", "shift_timings"} :
                   AppearsOnlyBy(t, id,
                       \E d \in WorkingScheduleUpdate_payloads :
                           update_working_schedule(id, d))
             /\ AppearsOnlyBy("compliance_documents", id,
                    \E d \in ComplianceDocumentsUpdate_payloads :
                        update_compliance_documents(id, d))
             /\ AppearsOnlyBy("policy_documents", id,
                    \E d \in PolicyDocumentsUpdate_payloads :
                        update_policy_documents(id, d))
             /\ AppearsOnlyBy("infrastructure_details", id,
                    \E d \in InfrastructureUpdate_payloads :
                        update_infrastructure(id, d))
             /\ AppearsOnlyBy("accreditation_documents", id,
                    \E d \in AccreditationUpdate_payloads :
                        update_accreditation_documents(id, d))
             /\ AppearsOnlyBy("other_lab_details", id,
                    \E d \in OtherLabDetailsUpdate_payloads :
                        update_other_lab_details(id, d))
             /\ \A t \in {"quality_manuals", "sops"} :
                   AppearsOnlyBy(t, id,
                       \E d \in QualityManualUpdate_payloads :
                           update_quality_manual(id, d))
             /\ \A t \in {"quality_formats", "quality_procedures"} :
                   AppearsOnlyBy(t, id,
                       \E d \in QualityFormatsUpdate_payloads :
                           update_quality_formats(id, d))]_vars

\* an Organization was just created without child rows while an older one
\* has child rows
C15_Witness ==
    /\ response.returns = "Organization"
    /\ \E id \in DOMAIN db.organizations :
          /\ db.organizations[id].created_at = now
          /\ response.body = db.organizations[id]
          /\ \A t \in ChildTables : rows_of(db[t], id) = <<>>
    /\ \E id \in DOMAIN db.organizations :
          \E t \in ChildTables : Len(rows_of(db[t], id)) > 0

\* C16: GET /organizations/{id} on an existing Organization is answered
\* 200 with the Organization as stored, whatever children it has.
C16_GetAnswersStored ==
    [][\A id \in OrgIds :
          organization_exists(id) =>
              \/ /\ response'.status_code = HTTP_200_OK
                 /\ response'.returns = "Organization"
                 /\ response'.body = db.organizations[id]
              \/ ~get_organization(id)]_vars

\* the stored states a and b hold the same Organizations and the same child
\* rows, the timestamps aside (the rows of the model carry no row id)
same_stored(a, b) ==
    /\ \A t \in ChildTables : a[t] = b[t]
    /\ DOMAIN a.organizations = DOMAIN b.organizations
    /\ \A id \in DOMAIN a.organizations :
           \A f \in DOMAIN Organization_columns :
               a.organizations[id][f] = b.organizations[id][f]

\* no call step(id, d) is followed by a second call step(id, d) that
\* changes what the first one stored (every request takes an instant, so
\* two calls in a row start no later than MaxTime - 2)
Idempotent(step(_, _), payloads) ==
    now + 2 <= MaxTime =>
        \A id \in OrgIds : \A d \in payloads :
            ~ENABLED (/\ step(id, d)
                      /\ (ENABLED (step(id, d) /\ ~same_stored(db', db)))')

\* C17: every step update is idempotent: from every reachable state, the
\* same call with the same payload made twice in a row leaves the stored
\* state the first call left (timestamps aside), whether the singleton row
\* of the step existed before the first call or not
C17_StepIdempotent ==
    /\ Idempotent(update_laboratory_details, LaboratoryDetailsUpdate_payloads)
    /\ Idempotent(update_registered_office, RegisteredOfficeUpdate_payloads)
    /\ Idempotent(update_parent_organization,
                  ParentOrganizationUpdate_payloads)
    /\ Idempotent(update_bank_details, BankDetailsUpdate_payloads)
    /\ Idempotent(update_working_schedule, WorkingScheduleUpdate_payloads)
    /\ Idempotent(update_compliance_documents,
                  ComplianceDocumentsUpdate_payloads)
    /\ Idempotent(update_policy_documents, PolicyDocumentsUpdate_payloads)
    /\ Idempotent(update_infrastructure, InfrastructureUpdate_payloads)
    /\ Idempotent(update_accreditation_documents,
                  AccreditationUpdate_payloads)
    /\ Idempotent(update_other_lab_details, OtherLabDetailsUpdate_payloads)
    /\ Idempotent(update_quality_manual, QualityManualUpdate_payloads)
    /\ Idempotent(update_quality_formats, QualityFormatsUpdate_payloads)

\* C17 witness: an Organization that has a registered office and top
\* management rows but no bank details yet, at an instant that leaves room
\* for two more requests, where a first call of a step on the existing
\* singleton, of a step on the missing one and of a collection step each
\* change what is stored
C17_Witness ==
    /\ now + 2 <= MaxTime
    /\ \E id \in DOMAIN db.organizations :
         /\ has_row(db.registered_offices, id)
         /\ ~has_row(db.bank_details, id)
         /\ rows_of(db.top_management, id) /= <<>>
         /\ \E d \in RegisteredOfficeUpdate_payloads :
                ENABLED (/\ update_registered_office(id, d)
                         /\ ~same_stored(db', db))
         /\ \E d \in BankDetailsUpdate_payloads :
                ENABLED (/\ update_bank_details(id, d)
                         /\ ~same_stored(db', db))
         /\ \E d \in ComplianceDocumentsUpdate_payloads :
                ENABLED (/\ update_compliance_documents(id, d)
                         /\ ~same_stored(db', db))

\* C18: update_working_schedule on an existing Organization stores the
\* shift timings when every shift_from and shift_to is a time of the form
\* HH:MM; when one of them is not, the step stores nothing and the client
\* is answered with a client error (a 4xx status), not with an internal
\* error
C18_ShiftTimeClientError ==
    [][\A id \in OrgIds : \A d \in WorkingScheduleUpdate_payloads :
          organization_exists(id) =>
              \/ IF shift_timings_raise(
                        attr(WorkingScheduleUpdate_defaults, d,
                             "shift_timings"))
                 THEN /\ db' = db
                      /\ response'.status_code >= HTTP_400_BAD_REQUEST
                      /\ response'.status_code <
                             HTTP_500_INTERNAL_SERVER_ERROR
                 ELSE /\ response'.raised = None
                      /\ Len(rows_of(db'.shift_timings, id)) =
                             Len(attr(WorkingScheduleUpdate_defaults, d,
                                      "shift_timings"))
              \/ ~update_working_schedule(id, d)]_vars

\* the payload d carries the coordinate f
sent(d, f) == f \in DOMAIN d /\ d[f] /= None

\* the payload d carries a number for the coordinate f that lies outside
\* -bound..bound
out_of_range(d, f, bound) ==
    /\ sent(d, f)
    /\ float(d[f]) /= ValueError
    /\ ~between(-bound, float(d[f]), bound)

\* the payload d carries a latitude within -90..90 and a longitude within
\* -180..180
both_in_range(d) ==
    /\ sent(d, "gps_latitude") /\ sent(d, "gps_longitude")
    /\ float(d.gps_latitude) /= ValueError
    /\ float(d.gps_longitude) /= ValueError
    /\ between(-90, float(d.gps_latitude), 90)
    /\ between(-180, float(d.gps_longitude), 180)

\* C19: the other-details step on an existing Organization rejects, with a
\* validation error and storing nothing, a payload whose latitude is
\* outside -90..90, whose longitude is outside -180..180, or that carries
\* only one of the two coordinates; a payload with both coordinates in
\* range is accepted and its coordinates are stored as numbers
C19_GpsValidated ==
    [][\A id \in OrgIds : \A d \in OtherLabDetailsUpdate_payloads :
          organization_exists(id) =>
              \/ IF both_in_range(d)
                 THEN /\ response'.raised = None
                      /\ has_row(db'.other_lab_details, id)
                      /\ singleton_row(db', "other_lab_details", id)
                             .gps_latitude = float(d.gps_latitude)
                      /\ singleton_row(db', "other_lab_details", id)
                             .gps_longitude = float(d.gps_longitude)
                 ELSE \/ ~ \/ out_of_range(d, "gps_latitude", 90)
                           \/ out_of_range(d, "gps_longitude", 180)
                           \/ sent(d, "gps_latitude") /=
                                  sent(d, "gps_longitude")
                      \/ /\ response'.raised = RequestValidationError
                         /\ db' = db
              \/ ~update_other_lab_details(id, d)]_vars

\* C20: validate_coordinates(latitude, longitude) returns True exactly when
\* both arguments are present, both parse as numbers, the latitude lies in
\* -90..90 and the longitude in -180..180; (45, 200) is invalid, (45, 90)
\* is valid, (45, absent) is invalid, and the bounds -90, 90, -180, 180
\* and 0 are valid
C20_CoordinatesValid ==
    response.returns = "bool" =>
        LET lat == response.latitude
            lon == response.longitude
        IN  /\ response.body =
                   (/\ lat /= None /\ lon /= None
                    /\ float(lat) /= ValueError /\ float(lon) /= ValueError
                    /\ between(-90, float(lat), 90)
                    /\ between(-180, float(lon), 180))
            /\ (lat = "45" /\ lon = "200") => response.body = FALSE
            /\ (lat = "45" /\ lon = "90") => response.body = TRUE
            /\ (lat = "45" /\ lon = None) => response.body = FALSE
            /\ (lat \in {"-90", "90", "0"} /\ lon \in {"-180", "180", "0"})
                   => response.body = TRUE

\* C20 witness: the call on the pair of bounds (-90, 180) has returned True
C20_Witness ==
    /\ response.returns = "bool"
    /\ response.latitude = "-90"
    /\ response.longitude = "180"
    /\ response.body = TRUE

\* the stored pin code v is null or consists of exactly six digits
six_digits_or_null(v) ==
    v = None \/ (Len(chars(v)) = 6 /\ \A i \in 1..6 : chars(v)[i] \in Digits)

\* C21: in every reachable state each stored pin code that is not null
\* (lab_pin_code of an Organization, pin_code of a RegisteredOffice and of
\* a ParentOrganization) consists of exactly six digits: the operations
\* that store a pin code reject every other value
C21_PinCodesSixDigits ==
    /\ \A id \in DOMAIN db.organizations :
           six_digits_or_null(db.organizations[id].lab_pin_code)
    /\ \A i \in 1..Len(db.registered_offices) :
           six_digits_or_null(db.registered_offices[i].pin_code)
    /\ \A i \in 1..Len(db.parent_organizations) :
           six_digits_or_null(db.parent_organizations[i].pin_code)

\* the characters cs are ten digits after the characters of prefix
ten_digits_after(prefix, cs) ==
    /\ Len(cs) = Len(prefix) + 10
    /\ SubSeq(cs, 1, Len(prefix)) = prefix
    /\ \A i \in (Len(prefix) + 1)..Len(cs) : cs[i] \in Digits

\* C22: validate_mobile_number(m) returns True exactly when m, after the
\* removal of every character that is neither a digit nor '+', is ten
\* digits, or '91' and ten digits, or '+91' and ten digits; '9876543210'
\* and '+919876543210' are valid and '12345' is not
C22_MobileNumberValid ==
    response.returns = "bool" =>
        LET m == response.mobile
            rest == SelectSeq(m, LAMBDA c : c \in Digits \/ c = "+")
        IN  /\ response.body =
                   (\/ ten_digits_after(<<>>, rest)
                    \/ ten_digits_after(<<"9", "1">>, rest)
                    \/ ten_digits_after(<<"+", "9", "1">>, rest))
            /\ m = SubSeq(MobileDigits, 1, 10) => response.body = TRUE
            /\ m = <<"+", "9", "1">> \o SubSeq(MobileDigits, 1, 10)
                   => response.body = TRUE
            /\ m = <<"1", "2", "3", "4", "5">> => response.body = FALSE

\* C22 witness: the call on '+9198765 43210' has returned True
C22_Witness ==
    /\ response.returns = "bool"
    /\ response.mobile = <<"+", "9", "1">> \o separated(10, <<" ">>)
    /\ response.body = TRUE

\* the file is at most as large as its category allows and its content
\* type is one the category allows
acceptable(file, file_type) ==
    IF file_type = "image"
    THEN /\ file.size <= MAX_IMAGE_SIZE
         /\ file.content_type \in allowed_image_types_list
    ELSE /\ file.size <= MAX_FILE_SIZE
         /\ file.content_type \in allowed_document_types_list

\* save_file on an acceptable file writes one file of the size of the
\* upload under the subfolder and returns its reference; on any other file
\* it raises FileUploadException and the upload directory is as before
SaveRule(file, subfolder, file_type) ==
    save_file(file, subfolder, file_type) =>
        IF acceptable(file, file_type)
        THEN /\ response'.raised = None
             /\ response'.returns = "str"
             /\ \E f \in db' \ db :
                    /\ f.size = file.size
                    /\ SubSeq(f.path, 1, Len(subfolder)) = subfolder
                    /\ response'.body = <<"/uploads">> \o f.path
                    /\ db' \ {f} \subseteq db
        ELSE /\ response'.raised = FileUploadException
             /\ db' = db

\* C23: save_file stores the file and returns a reference exactly when the
\* size of the file is at most the maximum of its category (MAX_IMAGE_SIZE
\* for an image, MAX_FILE_SIZE for a document) and its content type is in
\* the allowed list of the category; otherwise it raises
\* FileUploadException and writes no file
C23_SaveFileValidated ==
    [][\A file \in UploadFiles :
          /\ SaveRule(file, <<"logos">>, "image")
          /\ \A doc_type \in DocTypes :
                 SaveRule(file, <<"documents", doc_type>>, "document")]_vars

\* C23 witness: a second upload has just been refused while the file of an
\* earlier one is in the upload directory
C23_Witness ==
    /\ response.raised = FileUploadException
    /\ db /= {}

\* C26: in every reachable state an Organization whose status is Submitted
\* is complete, that is get_checklist reports is_ready_for_submission for
\* it: no step update accepted after the submission makes it incomplete
C26_SubmittedStaysComplete ==
    \A id \in DOMAIN db.organizations :
        status_of(db, id) = SUBMITTED =>
            checklist(id).is_ready_for_submission

\* C28: after an update_laboratory_details call that returns, made with
\* any payload LaboratoryDetailsUpdate accepts, the checklist of the
\* Organization reports Step 1 as completed
C28_Step1CompleteAfterUpdate ==
    [][\A id \in OrgIds, d \in LaboratoryDetailsUpdate_payloads :
          (organization_exists(id) /\ ~LaboratoryDetailsUpdate_raises(d)) =>
              \/ /\ response'.raised = None
                 /\ id \in DOMAIN db'.organizations
                 /\ ChecklistResponse(id,
                        checklist_steps(db'.organizations[id]))
                        .steps[1].is_completed
              \/ ~update_laboratory_details(id, d)]_vars

\* the columns of the organizations row that Step 1 does not write
root_fields_kept == {"status", "created_at"}

\* the request just served was not the step, or it left alone, within the
\* Organization id, the status, the root columns the step does not own
\* (all but updated_at for a step that owns child tables) and the rows of
\* every child table the step does not own
FrameRule(step, owns_root, owned, id) ==
    \/ /\ id \in DOMAIN db'.organizations
       /\ \A f \in IF owns_root THEN root_fields_kept
                   ELSE (DOMAIN db.organizations[id]) \ {"updated_at"} :
              db'.organizations[id][f] = db.organizations[id][f]
       /\ \A t \in ChildTables \ owned :
              rows_of(db'[t], id) = rows_of(db[t], id)
    \/ ~step

\* C29: a step update, whether it returns or raises, changes within its
\* Organization only what it owns: the status, the root columns other than
\* the update timestamp (for every step but Step 1, which owns them) and
\* the rows of every child table the step does not own are unchanged
C29_StepOwnsItsGroupings ==
    [][\A id \in OrgIds : organization_exists(id) =>
          /\ FrameRule(\E d \in LaboratoryDetailsUpdate_payloads :
                           update_laboratory_details(id, d),
                       TRUE, {}, id)
          /\ FrameRule(\E d \in RegisteredOfficeUpdate_payloads :
                           update_registered_office(id, d),
                       FALSE, {"registered_offices", "top_management"}, id)
          /\ FrameRule(\E d \in ParentOrganizationUpdate_payloads :
                           update_parent_organization(id, d),
                       FALSE, {"parent_organizations"}, id)
          /\ FrameRule(\E d \in BankDetailsUpdate_payloads :
                           update_bank_details(id, d),
                       FALSE, {"bank_details"}, id)
          /\ FrameRule(\E d \in WorkingScheduleUpdate_payloads :
                           update_working_schedule(id, d),
                       FALSE, {"working_schedules", "shift_timings"}, id)
          /\ FrameRule(\E d \in ComplianceDocumentsUpdate_payloads :
                           update_compliance_documents(id, d),
                       FALSE, {"compliance_documents"}, id)
          /\ FrameRule(\E d \in PolicyDocumentsUpdate_payloads :
                           update_policy_documents(id, d),
                       FALSE, {"policy_documents"}, id)
          /\ FrameRule(\E d \in InfrastructureUpdate_payloads :
                           update_infrastructure(id, d),
                       FALSE, {"infrastructure_details"}, id)
          /\ FrameRule(\E d \in AccreditationUpdate_payloads :
                           update_accreditation_documents(id, d),
                       FALSE, {"accreditation_documents"}, id)
          /\ FrameRule(\E d \in OtherLabDetailsUpdate_payloads :
                           update_other_lab_details(id, d),
                       FALSE, {"other_lab_details"}, id)
          /\ FrameRule(\E d \in QualityManualUpdate_payloads :
                           update_quality_manual(id, d),
                       FALSE, {"quality_manuals", "sops"}, id)
          /\ FrameRule(\E d \in QualityFormatsUpdate_payloads :
                           update_quality_formats(id, d),
                       FALSE, {"quality_formats", "quality_procedures"},
                       id)]_vars

\* a step update was just served for an Organization that has
\* accreditation documents, compliance documents and bank details, each
\* stored by a step of its own
C29_Witness ==
    \E id \in DOMAIN db.organizations :
        /\ response.raised = None
        /\ response.returns = "Organization"
        /\ response.body = db.organizations[id]
        /\ has_row(db.bank_details, id)
        /\ rows_of(db.accreditation_documents, id) /= <<>>
        /\ rows_of(db.compliance_documents, id) /= <<>>

\* the Organization b is stored in store as it is in db: the same row and
\* the same rows in every child table
same_organization(store, b) ==
    /\ b \in DOMAIN store.organizations
    /\ store.organizations[b] = db.organizations[b]
    /\ \A t \in ChildTables : rows_of(store[t], b) = rows_of(db[t], b)

\* C30: a step update, a submit or a delete applied to one Organization
\* leaves every other Organization as it was: its root columns, its status
\* and its rows in every child table
C30_OrganizationsIsolated ==
    [][\A a \in OrgIds, b \in OrgIds :
          (a /= b /\ organization_exists(b)) =>
              \/ same_organization(db', b)
              \/ ~(\/ StepUpdate(a)
                   \/ submit_organization(a)
                   \/ delete_organization(a))]_vars

\* the compliance documents of an Organization were stored by a step
\* served after another Organization had been given its own, which that
\* one still has
C30_Witness ==
    \E a \in DOMAIN db.organizations, b \in DOMAIN db.organizations :
        /\ a /= b
        /\ rows_of(db.compliance_documents, a) /= <<>>
        /\ rows_of(db.compliance_documents, b) /= <<>>
        /\ db.compliance_documents[1].organization_id = b
        /\ db.compliance_documents[Len(db.compliance_documents)]
               .organization_id = a
        /\ response.raised = None

\* the row without its primary key
without_key(row) == [f \in (DOMAIN row) \ {"id"} |-> row[f]]

\* the rows of the sequence, as a set
rows_in(rows) == {rows[i] : i \in 1..Len(rows)}

\* the request of session s has returned with status 200
succeeded(s) ==
    /\ response[s].pc = "done"
    /\ response[s].raised = None
    /\ response[s].status_code = HTTP_200_OK

\* C24: nothing keeps two concurrent update_working_schedule requests for
\* one Organization from storing their lists together: a request that has
\* run its DELETE can always commit, its commit raises nothing, and it
\* removes only the shift timings its DELETE found, so the rows another
\* request committed in between stay stored next to its own rows
C24_ReplaceKeepsUnseenRows ==
    /\ [](\A s \in Sessions : response[s].pc = "deleted" =>
             ENABLED update_working_schedule_commit(s))
    /\ [][\A s \in Sessions : response[s].pc = "deleted" =>
             \/ LET id == response[s].id
                    before == rows_in(rows_of(db.shift_timings, id))
                    after == rows_of(db'.shift_timings, id)
                    items == attr(WorkingScheduleUpdate_defaults,
                                  response[s].data, "shift_timings")
                    unseen == {r \in before :
                                  r.id \notin response[s].deleted}
                IN  /\ response'[s].raised = None
                    /\ response'[s].status_code = HTTP_200_OK
                    /\ unseen \subseteq rows_in(after)
                    /\ Len(after) = Cardinality(unseen) + Len(items)
                    /\ \A i \in 1..Len(items) :
                           LET r == after[Cardinality(unseen) + i]
                           IN  /\ r.id = <<s, i>>
                               /\ r.order_index = i - 1
             \/ ~update_working_schedule_commit(s)]_vars

\* two concurrent update_working_schedule requests for one Organization
\* have both returned with status 200 and the stored shift timings hold
\* rows of both, are the list of neither, and repeat an order index
C24_Witness ==
    \E s \in Sessions, t \in Sessions, id \in DOMAIN db.organizations :
        LET stored == rows_of(db.shift_timings, id)
            list(u) == shift_timing_rows(id,
                           attr(WorkingScheduleUpdate_defaults,
                                response[u].data, "shift_timings"))
        IN  /\ s /= t
            /\ \A u \in {s, t} :
                  /\ succeeded(u)
                  /\ response[u].op = "update_working_schedule"
                  /\ response[u].id = id
                  /\ \E i \in 1..Len(stored) : stored[i].id[1] = u
                  /\ [i \in 1..Len(stored) |-> without_key(stored[i])]
                         /= list(u)
            /\ \E i \in 1..Len(stored), j \in 1..Len(stored) :
                  /\ i /= j
                  /\ stored[i].order_index = stored[j].order_index

\* C25: a concurrent Step 1 or bank details request that commits is never
\* refused for a conflict: it returns, every column it sent with a value
\* other than the one it had loaded holds its value afterwards, whatever
\* another request committed there in between, and no other column of the
\* row changes (but the update timestamp)
C25_LastCommitWins ==
    [][\A s \in Sessions : response[s].pc = "loaded" =>
          /\ \/ response[s].op /= "update_laboratory_details"
             \/ LET id == response[s].id
                    dump == model_dump_exclude_unset(response[s].data, {})
                    loaded == response[s].organization[1]
                IN  /\ response'[s].raised = None
                    /\ response'[s].returns = "Organization"
                    /\ \A f \in DOMAIN dump :
                          \/ db'.organizations[id][f] = dump[f]
                          \/ /\ dump[f] = loaded[f]
                             /\ db'.organizations[id][f] =
                                    db.organizations[id][f]
                    /\ \A f \in (DOMAIN loaded) \
                                ((DOMAIN dump) \cup {"updated_at"}) :
                          db'.organizations[id][f] = db.organizations[id][f]
             \/ ~update_laboratory_details_commit(s)
          /\ \/ response[s].op /= "update_bank_details"
             \/ LET id == response[s].id
                    dump == model_dump_exclude_unset(response[s].data, {})
                    after == rows_of(db'.bank_details, id)
                IN  /\ response'[s].raised = None
                    /\ response'[s].status_code = HTTP_200_OK
                    /\ IF response[s].child = <<>>
                       THEN \A f \in DOMAIN dump :
                                after[Len(after)][f] = dump[f]
                       ELSE \A f \in DOMAIN dump :
                                \/ after[1][f] = dump[f]
                                \/ dump[f] = response[s].child[1][f]
             \/ ~update_bank_details_commit(s)]_vars

\* two concurrent Step 1 requests for one Organization sent different
\* names; both returned with status 200, the one that committed first was
\* answered with its name, and the name stored is the other one's
C25_Witness ==
    \E s \in Sessions, t \in Sessions, id \in DOMAIN db.organizations :
        /\ s /= t
        /\ \A u \in {s, t} :
              /\ succeeded(u)
              /\ response[u].op = "update_laboratory_details"
              /\ response[u].id = id
              /\ response[u].organization[1].updated_at = 0
        /\ response[s].data.lab_name /= response[t].data.lab_name
        /\ response[t].body.lab_name = response[t].data.lab_name
        /\ db.organizations[id].lab_name = response[s].data.lab_name

\* C27: also when requests run concurrently an Organization has at most
\* one BankDetails row: two first update_bank_details calls made while no
\* row exists leave one row, not two
C27_OneBankDetailsConcurrently ==
    \A id \in DOMAIN db.organizations :
        Len(rows_of(db.bank_details, id)) <= 1

====
